---- MODULE Spec2Model ----
(***************************************************************************)
(* Job pipeline orchestration of the video post-production client.         *)
(*                                                                         *)
(*   MakeSubtitlePage : handleGenerateSubtitle and the pollForSubtitles    *)
(*                      timer loop (variables prefixed ms / poll state).   *)
(*   ProcessingPage   : the six-stage stepper, its stage handlers and the  *)
(*                      job-status / voice-history refreshes.              *)
(*   FinalVideoPage   : handleCreateVideo and its pollStatus chain.        *)
(*   synchronize_and_generate_audio : the speech synthesis script with     *)
(*                      its progress file.                                 *)
(*                                                                         *)
(* Every backend request is asynchronous: a handler runs up to its next    *)
(* await in one step, and the response (or error) of each outstanding      *)
(* request is delivered in a later step, in any order.                     *)
(***************************************************************************)
EXTENDS Integers, Sequences, FiniteSets, Bags, TLC

\* ---------------------------------------------------------------------
\* MakeSubtitlePage: pollForSubtitles / handleGenerateSubtitle
\* ---------------------------------------------------------------------

VARIABLES
  msLoading,        \* MakeSubtitlePage `loading`
  feedbackMessage,  \* MakeSubtitlePage `feedbackMessage` ([type, text])
  gen,              \* position of handleGenerateSubtitle
  attempts,         \* pollForSubtitles `attempts`
  intervalId,       \* TRUE while the setInterval timer is set
  promise,          \* state of the promise returned by pollForSubtitles
  pollsInFlight,    \* getJobStatus requests of the loop awaiting a response
  contentInFlight,  \* getSubtitleContent requests of the loop awaiting a response
  loadsInFlight,    \* handleLoadSubtitleFile fetches awaiting a response
  otherRuns,        \* further handleGenerateSubtitle invocations running beside the tracked one
  pollCount,        \* history: getJobStatus requests issued by the tracked loop
  sawTerminal,      \* history: a delivered snapshot was completed or failed
  termSubs,         \* history: the completed / failed step statuses those snapshots carried
  settledBy,        \* history: which branch settled the promise
  msEv,             \* history: the last step of the page
  msMounted         \* MakeSubtitlePage is mounted (its consumer has not been torn down)

msVars == <<msLoading, feedbackMessage, gen, attempts, intervalId, promise,
            pollsInFlight, contentInFlight, loadsInFlight, otherRuns,
            pollCount, sawTerminal, termSubs, settledBy, msEv, msMounted>>

maxAttempts == 60

\* Bounds of the model (not program constants).
MaxPollsInFlight == 2
MaxLoads == 1
MaxOtherRuns == 1

\* Texts of the Error objects built by pollForSubtitles.
TimeoutError_asFailed == "Subtitle generation failed. Check job status page for more details."

TimeoutError == "Timeout waiting for subtitles. Please check job status manually or try refreshing subtitle history."
FailedError == "Subtitle generation failed. Check job status page for more details."
MissingError == "Subtitles reported as generated, but content is missing or invalid."

\* What each text tells the user (read off the three literals above).
AssertsFailure(text) == text = FailedError
AdvisesManualCheck(text) == text = TimeoutError

NoFeedback == [type |-> "", text |-> ""]

\* Job snapshots as the poller reads them: job-level status and
\* steps.generate_subtitles.status ("none" when the entry is absent).
PollStatuses == {"audio_extracted", "subtitles_generated", "generate_subtitles_failed"}
PollStepStatuses == {"none", "processing", "completed", "failed"}
PollSnapshots == [status : PollStatuses, sub : PollStepStatuses]

IsCompleted(s) == s.sub = "completed" \/ s.status = "subtitles_generated"

IsFailed(s) == s.sub = "failed" \/ s.status = "generate_subtitles_failed"

BudgetExceeded_off(a) == a >= maxAttempts

BudgetExceeded(a) == a > maxAttempts

MsInit ==
  /\ msLoading = FALSE
  /\ feedbackMessage = NoFeedback
  /\ gen = "idle"
  /\ attempts = 0
  /\ intervalId = FALSE
  /\ promise = "none"
  /\ pollsInFlight = 0
  /\ contentInFlight = 0
  /\ loadsInFlight = 0
  /\ otherRuns = 0
  /\ pollCount = 0
  /\ sawTerminal = FALSE
  /\ termSubs = {}
  /\ settledBy = "none"
  /\ msEv = "init"
  /\ msMounted = TRUE

\* reject(new Error(text)) followed by the catch/finally of the awaiting
\* handleGenerateSubtitle; a settled promise ignores it.
RejectWith(text, by) ==
  IF promise = "pending"
    THEN /\ promise' = text
         /\ settledBy' = by
         /\ feedbackMessage' = [type |-> "error", text |-> text]
         /\ msLoading' = FALSE
         /\ gen' = "idle"
    ELSE UNCHANGED <<promise, settledBy, feedbackMessage, msLoading, gen>>

\* resolve(content) followed by the continuation of handleGenerateSubtitle
\* up to `await fetchSubtitleFiles()`.
ResolveWith ==
  IF promise = "pending"
    THEN /\ promise' = "resolved"
         /\ settledBy' = "content"
         /\ feedbackMessage' = [type |-> "success", text |-> "Subtitles generated and loaded!"]
         /\ gen' = "refreshing"
         /\ UNCHANGED msLoading
    ELSE UNCHANGED <<promise, settledBy, feedbackMessage, msLoading, gen>>

\* catch (error) { console.error("Polling error:", error); }
OnPollError_stop ==
  /\ intervalId' = FALSE
  /\ RejectWith(FailedError, "catch")

OnPollError ==
  UNCHANGED <<intervalId, promise, settledBy, feedbackMessage, msLoading, gen>>

\* Click on "Generate Subtitles" of an audio card (disabled={loading}).
HandleGenerateSubtitle ==
  /\ msMounted
  /\ UNCHANGED <<msMounted, termSubs>>
  /\ ~msLoading
  /\ gen = "idle"
  /\ feedbackMessage' = NoFeedback
  /\ msLoading' = TRUE
  /\ gen' = "generating"
  /\ msEv' = "generate"
  /\ UNCHANGED <<attempts, intervalId, promise, pollsInFlight, contentInFlight,
                 loadsInFlight, otherRuns, pollCount, sawTerminal, settledBy>>

\* generateSubtitles answered: pollForSubtitles starts a fresh loop
\* (responses still outstanding belong to an earlier, settled loop).
GenerateAccepted ==
  /\ UNCHANGED msMounted
  /\ gen = "generating"
  /\ feedbackMessage' = [type |-> "info", text |-> "Subtitle generation started... This may take a few minutes. Please wait."]
  /\ gen' = "polling"
  /\ attempts' = 0
  /\ intervalId' = TRUE
  /\ promise' = "pending"
  /\ pollsInFlight' = 0
  /\ contentInFlight' = 0
  /\ pollCount' = 0
  /\ sawTerminal' = FALSE
  /\ termSubs' = {}
  /\ settledBy' = "none"
  /\ msEv' = "generate_ok"
  /\ UNCHANGED <<msLoading, loadsInFlight, otherRuns>>

\* generateSubtitles threw: catch + finally of handleGenerateSubtitle.
GenerateRejected ==
  /\ UNCHANGED <<msMounted, termSubs>>
  /\ gen = "generating"
  /\ feedbackMessage' = [type |-> "error", text |-> "An unknown error occurred during subtitle generation."]
  /\ msLoading' = FALSE
  /\ gen' = "idle"
  /\ msEv' = "generate_err"
  /\ UNCHANGED <<attempts, intervalId, promise, pollsInFlight, contentInFlight,
                 loadsInFlight, otherRuns, pollCount, sawTerminal, settledBy>>

\* One firing of the setInterval callback, up to its first await.
PollTick ==
  /\ UNCHANGED <<msMounted, termSubs>>
  /\ intervalId
  /\ attempts' = attempts + 1
  /\ IF BudgetExceeded(attempts + 1)
       THEN /\ intervalId' = FALSE
            /\ RejectWith(TimeoutError, "budget")
            /\ msEv' = "tick_timeout"
            /\ UNCHANGED <<pollsInFlight, pollCount>>
       ELSE /\ pollsInFlight < MaxPollsInFlight
            /\ pollsInFlight' = pollsInFlight + 1
            /\ pollCount' = pollCount + 1
            /\ msEv' = "tick_poll"
            /\ UNCHANGED <<intervalId, promise, settledBy, feedbackMessage, msLoading, gen>>
  /\ UNCHANGED <<contentInFlight, loadsInFlight, otherRuns, sawTerminal>>

\* getJobStatus of one attempt answered with snapshot s.
PollResponse(s) ==
  /\ UNCHANGED msMounted
  /\ pollsInFlight > 0
  /\ pollsInFlight' = pollsInFlight - 1
  /\ IF IsCompleted(s)
       THEN /\ intervalId' = FALSE
            /\ contentInFlight' = contentInFlight + 1
            /\ sawTerminal' = TRUE
            /\ termSubs' = termSubs \cup ({s.sub} \cap {"completed", "failed"})
            /\ msEv' = "poll_completed"
            /\ UNCHANGED <<promise, settledBy, feedbackMessage, msLoading, gen>>
       ELSE IF IsFailed(s)
       THEN /\ intervalId' = FALSE
            /\ RejectWith(FailedError, "failed_snapshot")
            /\ sawTerminal' = TRUE
            /\ termSubs' = termSubs \cup ({s.sub} \cap {"completed", "failed"})
            /\ msEv' = "poll_failed"
            /\ UNCHANGED contentInFlight
       ELSE /\ msEv' = "poll_pending"
            /\ UNCHANGED <<intervalId, contentInFlight, sawTerminal, termSubs, promise,
                           settledBy, feedbackMessage, msLoading, gen>>
  /\ UNCHANGED <<attempts, loadsInFlight, otherRuns, pollCount>>

\* getJobStatus of one attempt threw.
PollError ==
  /\ UNCHANGED <<msMounted, termSubs>>
  /\ pollsInFlight > 0
  /\ pollsInFlight' = pollsInFlight - 1
  /\ OnPollError
  /\ msEv' = "poll_error"
  /\ UNCHANGED <<attempts, contentInFlight, loadsInFlight, otherRuns, pollCount, sawTerminal>>

\* getSubtitleContent answered; valid = subtitle_content is a string.
ContentResponse(valid) ==
  /\ UNCHANGED <<msMounted, termSubs>>
  /\ contentInFlight > 0
  /\ contentInFlight' = contentInFlight - 1
  /\ IF valid THEN ResolveWith ELSE RejectWith(MissingError, "content_invalid")
  /\ msEv' = IF valid THEN "content_ok" ELSE "content_invalid"
  /\ UNCHANGED <<attempts, intervalId, pollsInFlight, loadsInFlight, otherRuns,
                 pollCount, sawTerminal>>

\* getSubtitleContent threw inside the try block of the callback.
ContentError ==
  /\ UNCHANGED <<msMounted, termSubs>>
  /\ contentInFlight > 0
  /\ contentInFlight' = contentInFlight - 1
  /\ OnPollError
  /\ msEv' = "content_error"
  /\ UNCHANGED <<attempts, pollsInFlight, loadsInFlight, otherRuns, pollCount, sawTerminal>>

\* fetchSubtitleFiles settled (it catches its own errors): finally block.
RefreshSettled(ok) ==
  /\ UNCHANGED <<msMounted, termSubs>>
  /\ gen = "refreshing"
  /\ gen' = "idle"
  /\ msLoading' = FALSE
  /\ feedbackMessage' = IF ok THEN feedbackMessage
                        ELSE [type |-> "error", text |-> "Failed to load subtitle history"]
  /\ msEv' = "refresh_settled"
  /\ UNCHANGED <<attempts, intervalId, promise, pollsInFlight, contentInFlight,
                 loadsInFlight, otherRuns, pollCount, sawTerminal, settledBy>>

\* Click on a subtitle file of the history list (never disabled).
HandleLoadSubtitleFile ==
  /\ msMounted
  /\ UNCHANGED <<msMounted, termSubs>>
  /\ loadsInFlight < MaxLoads
  /\ loadsInFlight' = loadsInFlight + 1
  /\ feedbackMessage' = NoFeedback
  /\ msLoading' = TRUE
  /\ msEv' = "load"
  /\ UNCHANGED <<gen, attempts, intervalId, promise, pollsInFlight, contentInFlight,
                 otherRuns, pollCount, sawTerminal, settledBy>>

LoadSettled(ok) ==
  /\ UNCHANGED <<msMounted, termSubs>>
  /\ loadsInFlight > 0
  /\ loadsInFlight' = loadsInFlight - 1
  /\ feedbackMessage' = IF ok THEN [type |-> "success", text |-> "Loaded subtitle file"]
                        ELSE [type |-> "error", text |-> "Failed to load subtitle file"]
  /\ msLoading' = FALSE
  /\ msEv' = "load_settled"
  /\ UNCHANGED <<gen, attempts, intervalId, promise, pollsInFlight, contentInFlight,
                 otherRuns, pollCount, sawTerminal, settledBy>>

\* A further click on "Generate Subtitles" while the tracked invocation is
\* still running; only its effect on the page flags is kept.
OtherGenerateStart ==
  /\ msMounted
  /\ UNCHANGED <<msMounted, termSubs>>
  /\ ~msLoading
  /\ gen # "idle"
  /\ otherRuns < MaxOtherRuns
  /\ otherRuns' = otherRuns + 1
  /\ feedbackMessage' = NoFeedback
  /\ msLoading' = TRUE
  /\ msEv' = "other_generate"
  /\ UNCHANGED <<gen, attempts, intervalId, promise, pollsInFlight, contentInFlight,
                 loadsInFlight, pollCount, sawTerminal, settledBy>>

OtherGenerateSettled ==
  /\ UNCHANGED <<msMounted, termSubs>>
  /\ otherRuns > 0
  /\ otherRuns' = otherRuns - 1
  /\ feedbackMessage' = [type |-> "other", text |-> "outcome of the other invocation"]
  /\ msLoading' = FALSE
  /\ msEv' = "other_settled"
  /\ UNCHANGED <<gen, attempts, intervalId, promise, pollsInFlight, contentInFlight,
                 loadsInFlight, pollCount, sawTerminal, settledBy>>

\* The page is unmounted (the user navigates away).  No effect cleanup of the
\* page touches the timer of pollForSubtitles: the only cleanups remove
\* listeners of the audio element.
Unmount ==
  /\ msMounted
  /\ msMounted' = FALSE
  /\ msEv' = "unmount"
  /\ UNCHANGED <<msLoading, feedbackMessage, gen, attempts, intervalId, promise,
                 pollsInFlight, contentInFlight, loadsInFlight, otherRuns,
                 pollCount, sawTerminal, termSubs, settledBy>>

\* ---------------------------------------------------------------------
\* ProcessingPage: stage handlers, snapshot refreshes, navigation
\* ---------------------------------------------------------------------

VARIABLES
  activeStep,             \* useState(1)
  loading,                \* useState(false): the in-flight flag
  error,                  \* useState(null); "null" or the message shown
  job,                    \* useState(null): the last snapshot applied
  audioPath,
  subtitlePath,
  voiceChangedAudioPath,
  cleanedAudioPath,
  finalVideoPath,
  voiceHistory,
  edited,                 \* subtitleContent !== editedSubtitleContent
  tasks,                  \* bag of async invocations suspended at an await
  bStatus,                \* backend: job.status
  bCv,                    \* backend: steps.change_voice.status
  bCvPath,                \* backend: steps.change_voice.path (0 = absent)
  bHistory,               \* backend: voice history of the job
  bVer,                   \* backend: number of changes made to the job
  started,                \* history: handler invocations started by the user
  voiceStarted,           \* history: handleChangeVoice invocations among them
  voiceReqs               \* history: settings of the change-voice actions that succeeded

ppVars == <<activeStep, loading, error, job, audioPath, subtitlePath,
            voiceChangedAudioPath, cleanedAudioPath, finalVideoPath,
            voiceHistory, edited, tasks, bStatus, bCv, bCvPath, bHistory,
            bVer, started, voiceStarted, voiceReqs>>

\* Bounds of the model (not program constants).
MaxTasks == 3
MaxStarts == 2
MaxVoiceStarts == 1

\* Job statuses of the stage table.
Statuses == {"uploaded", "audio_extracted", "subtitles_generated", "voice_changed",
             "voice_change_skipped", "audio_cleaned", "completed"}

\* Settings a change-voice request can carry (voice id, stability, clarity,
\* subtitle selection), as chosen in the form before the click.
VoiceSettings ==
  { [voice_id |-> "21m00Tcm4TlvDq8ikWAM", stability |-> 50, clarity |-> 75, subtitle_selection |-> "original"],
    [voice_id |-> "AZnzlk1XvdvUeBnXmlld", stability |-> 30, clarity |-> 75, subtitle_selection |-> "edited"] }

NoSettings == [voice_id |-> "", stability |-> 0, clarity |-> 0, subtitle_selection |-> ""]

\* Voice audio locators: n = 0 is null, n = -1 is undefined, n > 0 is the
\* url_path of the n-th history entry; t marks the "?t=<time>" suffix.
NullVoicePath == [n |-> 0, t |-> FALSE]
UndefinedVoicePath == [n |-> -1, t |-> FALSE]

\* `${path}?t=${cacheBuster}`
CacheBusted(n) == [n |-> n, t |-> TRUE]

PlainVoicePath(n) == IF n = 0 THEN UndefinedVoicePath ELSE [n |-> n, t |-> FALSE]

NullJob == [status |-> "null", cv |-> "none", cvPath |-> 0, ver |-> -1]

NoResp == [ok |-> FALSE, snap |-> NullJob, path |-> FALSE, content |-> FALSE,
           skipped |-> FALSE, hasHist |-> FALSE, hist |-> <<>>, n |-> 0]

Free == [k |-> "free", pc |-> "", ph |-> "", st |-> NoSettings, sk |-> FALSE, r |-> NoResp]

\* fetchJobStatus: the step each job status maps to; other statuses leave
\* the step as it is.
StepOfStatus_skipStays(status, cur) ==
  CASE status = "uploaded" -> 1
    [] status = "audio_extracted" -> 2
    [] status = "subtitles_generated" -> 3
    [] status = "voice_changed" -> 4
    [] status = "voice_change_skipped" -> 3
    [] status = "audio_cleaned" -> 5
    [] status = "completed" -> 6
    [] OTHER -> cur

StepOfStatus(status, cur) ==
  CASE status = "uploaded" -> 1
    [] status = "audio_extracted" -> 2
    [] status = "subtitles_generated" -> 3
    [] status = "voice_changed" -> 4
    [] status = "voice_change_skipped" -> 4
    [] status = "audio_cleaned" -> 5
    [] status = "completed" -> 6
    [] OTHER -> cur

\* Rank of a status along the stage order.
StageRank(status) == StepOfStatus(status, 0)

\* Initial backend states: a job opened at one of these statuses, with no
\* voice generated yet.
InitStatuses == {"uploaded", "voice_change_skipped"}

\* State after construction and the mount effect: fetchJobStatus and
\* fetchVoiceHistory are outstanding (fetchSubtitleContent returns at once
\* because subtitlePath is null).
PpInit ==
  /\ activeStep = 1
  /\ loading = FALSE
  /\ error = "null"
  /\ job = NullJob
  /\ audioPath = "null"
  /\ subtitlePath = "null"
  /\ voiceChangedAudioPath = NullVoicePath
  /\ cleanedAudioPath = "null"
  /\ finalVideoPath = "null"
  /\ voiceHistory = <<>>
  /\ edited = FALSE
  /\ tasks = SetToBag({ [Free EXCEPT !.k = "fetchJobStatus", !.pc = "status", !.ph = "req"],
                         [Free EXCEPT !.k = "fetchVoiceHistory", !.pc = "history", !.ph = "req"] })
  /\ bStatus \in InitStatuses
  /\ bCv = IF bStatus = "voice_change_skipped" THEN "skipped" ELSE "none"
  /\ bCvPath = 0
  /\ bHistory = <<>>
  /\ bVer = 0
  /\ started = 0
  /\ voiceStarted = 0
  /\ voiceReqs = <<>>

Pending == BagToSet(tasks)

HasFree == BagCardinality(tasks) < MaxTasks

\* Number of copies in tasks of the invocations of the set sel.
CopiesOf(sel) == BagCardinality([t \in sel |-> CopiesIn(t, tasks)])

Truthy(path) == path \notin {"null", "undefined"}

StageKinds == {"extract", "subtitles", "voice", "skip", "clean", "final"}

\* Number of stage-advancing requests that are outstanding.
IsStageRequest(t) == t.k \in StageKinds /\ t.pc = "stage"

StageRequestsInFlight == CopiesOf({t \in Pending : IsStageRequest(t)})

\* Number of stage handlers that have been started and have not returned.
IsStageAction(t) == t.k \in StageKinds

StageActionsPending == CopiesOf({t \in Pending : IsStageAction(t)})

Snapshot == [status |-> bStatus, cv |-> bCv, cvPath |-> bCvPath, ver |-> bVer]

clientVars == <<activeStep, loading, error, job, audioPath, subtitlePath,
                voiceChangedAudioPath, cleanedAudioPath, finalVideoPath,
                voiceHistory, edited>>

backendVars == <<bStatus, bCv, bCvPath, bHistory, bVer>>

\* Invocation i is replaced by its next suspension point j.
Replace(i, j) == tasks' = (tasks (-) SetToBag({i})) (+) SetToBag({j})

Respond(i, resp) == Replace(i, [i EXCEPT !.ph = "resp", !.r = resp])

\* Invocation i moves on to its next await.
Await(i, pc) == Replace(i, [i EXCEPT !.pc = pc, !.ph = "req", !.r = NoResp])

Return(i) == tasks' = tasks (-) SetToBag({i})

\* A handler whose stage request has failed: its catch block sets the
\* message and the handler ends; the request is not sent again.
OnStageError_retry(i) == Await(i, "stage")

OnStageError(i) == Return(i)

Start(k, pc, st) ==
  tasks' = tasks (+) SetToBag({[Free EXCEPT !.k = k, !.pc = pc, !.ph = "req", !.st = st]})

\* ------------------------- backend ----------------------------------

\* Status the job has once a stage operation has succeeded.
StatusAfter(k) ==
  CASE k = "extract" -> "audio_extracted"
    [] k = "subtitles" -> "subtitles_generated"
    [] k = "voice" -> "voice_changed"
    [] k = "skip" -> "voice_change_skipped"
    [] k = "clean" -> "audio_cleaned"
    [] k = "final" -> "completed"

\* GET /job-status: the snapshot at the time the request is served.
ServeJobStatus(i) ==
  /\ i.ph = "req"
  /\ i.pc \in {"status", "refresh"}
  /\ \E ok \in BOOLEAN :
       Respond(i, [NoResp EXCEPT !.ok = ok, !.snap = IF ok THEN Snapshot ELSE NullJob])
  /\ UNCHANGED <<clientVars, backendVars, started, voiceStarted, voiceReqs>>

\* GET /voice-history
ServeVoiceHistory(i) ==
  /\ i.ph = "req"
  /\ i.pc = "history"
  /\ \E ok \in BOOLEAN :
       Respond(i, [NoResp EXCEPT !.ok = ok, !.hist = IF ok THEN bHistory ELSE <<>>])
  /\ UNCHANGED <<clientVars, backendVars, started, voiceStarted, voiceReqs>>

\* A stage operation other than change-voice: it fails without effect, or
\* completes the stage; a completed stage may answer without its locator
\* (path) or, for generate-subtitles, without the inline text (content).
\* The answer to skip-voice-change carries no locator.
ServeStage(i) ==
  /\ i.ph = "req"
  /\ i.pc = "stage"
  /\ i.k \in {"extract", "subtitles", "skip", "clean", "final"}
  /\ \/ /\ Respond(i, NoResp)
        /\ UNCHANGED backendVars
     \/ /\ \E path \in BOOLEAN, content \in BOOLEAN :
             /\ (content => i.k = "subtitles")
             /\ (path => i.k # "skip")
             /\ Respond(i, [NoResp EXCEPT !.ok = TRUE, !.path = path, !.content = content])
        /\ bStatus' = StatusAfter(i.k)
        /\ bCv' = IF i.k = "skip" THEN "skipped" ELSE bCv
        /\ bVer' = bVer + 1
        /\ UNCHANGED <<bCvPath, bHistory>>
  /\ UNCHANGED <<clientVars, started, voiceStarted, voiceReqs>>

\* POST /change-voice: fails, reports voice_change_skipped, or appends one
\* entry carrying the request's settings to the history.
ServeChangeVoice(i) ==
  /\ i.ph = "req"
  /\ i.pc = "stage"
  /\ i.k = "voice"
  /\ \/ /\ Respond(i, NoResp)
        /\ UNCHANGED backendVars
     \/ /\ \E hasHist \in BOOLEAN :
             Respond(i, [NoResp EXCEPT !.ok = TRUE, !.skipped = TRUE, !.hasHist = hasHist,
                                       !.hist = IF hasHist THEN bHistory ELSE <<>>])
        /\ bStatus' = "voice_change_skipped"
        /\ bCv' = "skipped"
        /\ bVer' = bVer + 1
        /\ UNCHANGED <<bCvPath, bHistory>>
     \/ /\ LET n == Len(bHistory) + 1
               entry == [voice_id |-> i.st.voice_id,
                         stability |-> i.st.stability,
                         clarity |-> i.st.clarity,
                         subtitle_selection |-> i.st.subtitle_selection,
                         url_path |-> n]
           IN /\ bHistory' = Append(bHistory, entry)
              /\ bCvPath' = n
              /\ \E path \in BOOLEAN, hasHist \in BOOLEAN :
                   Respond(i, [NoResp EXCEPT !.ok = TRUE, !.path = path, !.n = n,
                                             !.hasHist = hasHist,
                                             !.hist = IF hasHist THEN bHistory' ELSE <<>>])
        /\ bStatus' = "voice_changed"
        /\ bCv' = "completed"
        /\ bVer' = bVer + 1
  /\ UNCHANGED <<clientVars, started, voiceStarted, voiceReqs>>

\* ------------------------- ProcessingPage ---------------------------

JobLoadError == "Failed to load job information. Please try again."
VoiceProgressNote == "Voice generation in progress. This may take up to 2 minutes..."
VoiceSkippedNote == "Voice changing was skipped"

\* Message set by the catch block of the handler of stage k.
FailMessage(k) ==
  CASE k = "extract" -> "Failed to extract audio. Please try again."
    [] k = "subtitles" -> "Failed to generate subtitles"
    [] k = "voice" -> "Failed to change voice. "
    [] k = "skip" -> "Failed to skip voice change"
    [] k = "clean" -> "Failed to clean audio. Please try again."
    [] k = "final" -> "Failed to create final video. Please try again."
    [] k = "save" -> "Failed to save edited subtitles. Please try again."

\* Step a handler sets once its stage request has succeeded.
StepAfter(k) ==
  CASE k = "extract" -> 2
    [] k = "subtitles" -> 3
    [] k = "voice" -> 4
    [] k = "skip" -> 4
    [] k = "clean" -> 5
    [] k = "final" -> 6

\* Body of the try block of fetchJobStatus for a fetched snapshot.
ApplyJobStatus(snap) ==
  LET rank == StageRank(snap.status)
  IN /\ job' = snap
     /\ activeStep' = StepOfStatus(snap.status, activeStep)
     /\ audioPath' = IF rank >= 2 THEN "audio" ELSE audioPath
     /\ subtitlePath' = IF rank >= 3 THEN "subs" ELSE subtitlePath
     /\ voiceChangedAudioPath' =
          IF snap.status \in {"voice_changed", "audio_cleaned", "completed"}
            THEN PlainVoicePath(snap.cvPath) ELSE voiceChangedAudioPath
     /\ cleanedAudioPath' = IF rank >= 5 THEN "cleaned" ELSE cleanedAudioPath
     /\ finalVideoPath' = IF rank >= 6 THEN "final" ELSE finalVideoPath

\* getVoiceHistory of the API layer: an error yields the empty list.
GetVoiceHistoryResult(r) == IF r.ok THEN r.hist ELSE <<>>

\* Body of fetchVoiceHistory once getVoiceHistory has returned.
ApplyVoiceHistory(history) ==
  IF history = <<>>
    THEN UNCHANGED <<voiceHistory, voiceChangedAudioPath>>
    ELSE /\ voiceHistory' = history
         /\ voiceChangedAudioPath' = CacheBusted(history[Len(history)].url_path)

\* fetchJobStatus (mount effect, or started by handleSkipVoiceChange) settles.
FetchJobStatusSettled(i) ==
  /\ i.k = "fetchJobStatus"
  /\ i.ph = "resp"
  /\ IF i.r.ok
       THEN /\ ApplyJobStatus(i.r.snap)
            /\ UNCHANGED error
       ELSE /\ error' = JobLoadError
            /\ UNCHANGED <<job, activeStep, audioPath, subtitlePath, voiceChangedAudioPath,
                           cleanedAudioPath, finalVideoPath>>
  /\ Return(i)
  /\ UNCHANGED <<loading, voiceHistory, edited, backendVars, started, voiceStarted, voiceReqs>>

\* fetchVoiceHistory of the mount effect settles.
FetchVoiceHistorySettled(i) ==
  /\ i.k = "fetchVoiceHistory"
  /\ i.ph = "resp"
  /\ ApplyVoiceHistory(GetVoiceHistoryResult(i.r))
  /\ Return(i)
  /\ UNCHANGED <<activeStep, loading, error, job, audioPath, subtitlePath,
                 cleanedAudioPath, finalVideoPath, edited, backendVars, started, voiceStarted, voiceReqs>>

\* Click on a "run stage" button whose handler starts with the stage
\* request: Extract Audio, Generate Subtitles, Skip Voice Change, Create
\* Final Video.
EnabledAtStep(k, step) ==
  CASE k = "extract" -> step = 1
    [] k = "subtitles" -> step = 2
    [] k = "voice" -> step >= 3
    [] k = "skip" -> step = 3
    [] k = "clean" -> step = 4
    [] k = "final" -> step = 5

RunButtonEnabled(k) == EnabledAtStep(k, activeStep) /\ ~loading

HandleStage(k) ==
  /\ k \in {"extract", "subtitles", "skip", "final"}
  /\ RunButtonEnabled(k)
  /\ HasFree
  /\ started < MaxStarts
  /\ started' = started + 1
  /\ UNCHANGED voiceStarted
  /\ loading' = TRUE
  /\ error' = "null"
  /\ Start(k, "stage", NoSettings)
  /\ UNCHANGED <<activeStep, job, audioPath, subtitlePath, voiceChangedAudioPath,
                 cleanedAudioPath, finalVideoPath, voiceHistory, edited, backendVars, voiceReqs>>

\* handleExtractAudio / handleCleanAudio / handleCreateFinalVideo after
\* `await <stage request>`.
StageSettled(i) ==
  /\ i.k \in {"extract", "clean", "final"}
  /\ i.pc = "stage"
  /\ i.ph = "resp"
  /\ LET k == i.k
         r == i.r
         loc == IF r.path THEN (CASE k = "extract" -> "audio" [] k = "clean" -> "cleaned" [] k = "final" -> "final")
                ELSE "undefined"
     IN IF r.ok
          THEN /\ audioPath' = IF k = "extract" THEN loc ELSE audioPath
               /\ cleanedAudioPath' = IF k = "clean" THEN loc ELSE cleanedAudioPath
               /\ finalVideoPath' = IF k = "final" THEN loc ELSE finalVideoPath
               /\ activeStep' = StepAfter(k)
               /\ Await(i, "refresh")
               /\ UNCHANGED <<loading, error>>
          ELSE /\ error' = FailMessage(k)
               /\ loading' = FALSE
               /\ OnStageError(i)
               /\ UNCHANGED <<audioPath, cleanedAudioPath, finalVideoPath, activeStep>>
  /\ UNCHANGED <<job, subtitlePath, voiceChangedAudioPath, voiceHistory, edited,
                 backendVars, started, voiceStarted, voiceReqs>>

\* handleGenerateSubtitles after `await generateSubtitles(...)`.
SubtitlesSettled(i) ==
  /\ i.k = "subtitles"
  /\ i.pc = "stage"
  /\ i.ph = "resp"
  /\ LET r == i.r
     IN IF r.ok
          THEN /\ subtitlePath' = IF r.path THEN "subs" ELSE subtitlePath
               /\ IF r.content
                    THEN /\ edited' = FALSE
                         /\ activeStep' = 3
                         /\ Await(i, "refresh")
                    ELSE /\ Replace(i, [i EXCEPT !.pc = "content", !.ph = "req",
                                                     !.r = NoResp, !.sk = r.path])
                         /\ UNCHANGED <<edited, activeStep>>
               /\ UNCHANGED <<loading, error>>
          ELSE /\ error' = FailMessage("subtitles")
               /\ loading' = FALSE
               /\ OnStageError(i)
               /\ UNCHANGED <<subtitlePath, edited, activeStep>>
  /\ UNCHANGED <<job, audioPath, voiceChangedAudioPath, cleanedAudioPath, finalVideoPath,
                 voiceHistory, backendVars, started, voiceStarted, voiceReqs>>

\* handleGenerateSubtitles after `await getSubtitleContent(jobId)` and after
\* the fetch of the subtitle file; errors of both are only logged.  Neither
\* request changes the job, so the answer (ok, and content = the text was in
\* it) is chosen when it arrives.  The task's sk field holds
\* "response.subtitle_path was present".
SubtitleContentSettled(i) ==
  /\ i.k = "subtitles"
  /\ i.pc \in {"content", "file"}
  /\ i.ph = "req"
  /\ \E ok \in BOOLEAN, content \in BOOLEAN :
       /\ (content => ok)
       /\ IF ok /\ ~content /\ i.pc = "content" /\ i.sk
            THEN /\ Await(i, "file")
                 /\ UNCHANGED <<edited, activeStep>>
            ELSE /\ edited' = IF content \/ (i.pc = "file" /\ ok) THEN FALSE ELSE edited
                 /\ activeStep' = 3
                 /\ Await(i, "refresh")
  /\ UNCHANGED <<loading, error, job, audioPath, subtitlePath, voiceChangedAudioPath,
                 cleanedAudioPath, finalVideoPath, voiceHistory, backendVars, started, voiceStarted, voiceReqs>>

\* handleSkipVoiceChange after `await skipVoiceChange(jobId)`: the flag is
\* released, fetchJobStatus is started without being awaited, and the step
\* is set.
SkipSettled(i) ==
  /\ i.k = "skip"
  /\ i.pc = "stage"
  /\ i.ph = "resp"
  /\ IF i.r.ok
       THEN /\ activeStep' = 4
            /\ Replace(i, [Free EXCEPT !.k = "fetchJobStatus", !.pc = "status", !.ph = "req"])
            /\ UNCHANGED error
       ELSE /\ error' = FailMessage("skip")
            /\ OnStageError(i)
            /\ UNCHANGED activeStep
  /\ loading' = FALSE
  /\ UNCHANGED <<job, audioPath, subtitlePath, voiceChangedAudioPath, cleanedAudioPath,
                 finalVideoPath, voiceHistory, edited, backendVars, started, voiceStarted, voiceReqs>>

\* Click on Clean Audio, or on one of the three change-voice buttons with
\* the settings st of the form.  A modified subtitle text is saved first.
HandleWithSave(k, st) ==
  /\ k \in {"voice", "clean"}
  /\ (k = "clean") = (st = NoSettings)
  /\ RunButtonEnabled(k)
  /\ HasFree
  /\ started < MaxStarts
  /\ started' = started + 1
  /\ (k = "voice") => voiceStarted < MaxVoiceStarts
  /\ voiceStarted' = IF k = "voice" THEN voiceStarted + 1 ELSE voiceStarted
  /\ loading' = TRUE
  /\ IF edited
       THEN /\ Start(k, "save", st)
            /\ error' = "null"
            /\ UNCHANGED voiceChangedAudioPath
       ELSE /\ Start(k, "stage", st)
            /\ error' = IF k = "voice" THEN VoiceProgressNote ELSE "null"
            /\ voiceChangedAudioPath' = IF k = "voice" THEN NullVoicePath ELSE voiceChangedAudioPath
  /\ UNCHANGED <<activeStep, job, audioPath, subtitlePath, cleanedAudioPath, finalVideoPath,
                 voiceHistory, edited, backendVars, voiceReqs>>

\* loading after handleSaveEditedSubtitles has returned true inside handler
\* k: handleChangeVoice sets the flag again before its request,
\* handleCleanAudio does not.
LoadingAfterSave_held(k) == TRUE

LoadingAfterSave(k) == k = "voice"

\* handleSaveEditedSubtitles has returned false inside handleChangeVoice /
\* handleCleanAudio: the handler throws, and ends in its catch block without
\* sending its stage request.
OnSaveFailed_proceed(i) == Await(i, "stage")

OnSaveFailed(i) == Return(i)

\* handleSaveEditedSubtitles called from handleChangeVoice / handleCleanAudio
\* settles (saving does not change the job status, so its outcome is chosen
\* when it arrives), and the caller continues up to its stage request.
SaveBeforeStageSettled(i) ==
  /\ i.k \in {"voice", "clean"}
  /\ i.pc = "save"
  /\ i.ph = "req"
  /\ LET k == i.k
     IN \E ok \in BOOLEAN :
          IF ok
            THEN /\ subtitlePath' = "subs_edited"
                 /\ loading' = LoadingAfterSave(k)
                 /\ error' = IF k = "voice" THEN VoiceProgressNote ELSE "null"
                 /\ voiceChangedAudioPath' = IF k = "voice" THEN NullVoicePath ELSE voiceChangedAudioPath
                 /\ Await(i, "stage")
            ELSE /\ error' = FailMessage(k)
                 /\ loading' = FALSE
                 /\ OnSaveFailed(i)
                 /\ UNCHANGED <<subtitlePath, voiceChangedAudioPath>>
  /\ UNCHANGED <<activeStep, job, audioPath, cleanedAudioPath, finalVideoPath,
                 voiceHistory, edited, backendVars, started, voiceStarted, voiceReqs>>

\* handleChangeVoice after `await changeVoice(jobId, settings)`.
ChangeVoiceSettled(i) ==
  /\ i.k = "voice"
  /\ i.pc = "stage"
  /\ i.ph = "resp"
  /\ LET r == i.r
     IN IF ~r.ok \/ (~r.skipped /\ ~r.path)
          THEN /\ error' = FailMessage("voice")
               /\ loading' = FALSE
               /\ OnStageError(i)
               /\ UNCHANGED <<voiceChangedAudioPath, voiceHistory, activeStep>>
          ELSE /\ error' = IF r.skipped THEN VoiceSkippedNote ELSE "null"
               /\ voiceChangedAudioPath' = IF r.skipped THEN NullVoicePath ELSE CacheBusted(r.n)
               /\ IF r.hasHist
                    THEN /\ voiceHistory' = r.hist
                         /\ activeStep' = 4
                         /\ Replace(i, [i EXCEPT !.pc = "refresh", !.ph = "req",
                                                      !.r = NoResp, !.sk = r.skipped])
                    ELSE /\ Replace(i, [i EXCEPT !.pc = "history", !.ph = "req",
                                                      !.r = NoResp, !.sk = r.skipped])
                         /\ UNCHANGED <<voiceHistory, activeStep>>
               /\ UNCHANGED loading
  /\ UNCHANGED <<job, audioPath, subtitlePath, cleanedAudioPath, finalVideoPath, edited,
                 backendVars, started, voiceStarted, voiceReqs>>

\* handleChangeVoice after `await fetchVoiceHistory()`.
VoiceHistorySettled(i) ==
  /\ i.k = "voice"
  /\ i.pc = "history"
  /\ i.ph = "resp"
  /\ ApplyVoiceHistory(GetVoiceHistoryResult(i.r))
  /\ activeStep' = 4
  /\ Await(i, "refresh")
  /\ UNCHANGED <<loading, error, job, audioPath, subtitlePath, cleanedAudioPath,
                 finalVideoPath, edited, backendVars, started, voiceStarted, voiceReqs>>

\* loading once handler invocation i has left its try block, by falling off
\* its end, through its catch or by the early return of a skipped voice
\* change: the finally block runs setLoading(false) in each case.
LoadingAtReturn_skipKeeps(i) == i.sk /\ loading

LoadingAtReturn(i) == FALSE

\* The `await getJobStatus(jobId)` that ends the try block of
\* handleExtractAudio, handleGenerateSubtitles, handleChangeVoice,
\* handleCleanAudio and handleCreateFinalVideo, then catch / finally.
StageRefreshSettled(i) ==
  /\ i.pc = "refresh"
  /\ i.ph = "resp"
  /\ LET k == i.k
     IN IF i.r.ok
          THEN /\ job' = i.r.snap
               /\ voiceReqs' = IF k = "voice" /\ ~i.sk
                                 THEN Append(voiceReqs, i.st) ELSE voiceReqs
               /\ UNCHANGED error
          ELSE /\ error' = FailMessage(k)
               /\ UNCHANGED <<job, voiceReqs>>
  /\ loading' = LoadingAtReturn(i)
  /\ Return(i)
  /\ UNCHANGED <<activeStep, audioPath, subtitlePath, voiceChangedAudioPath,
                 cleanedAudioPath, finalVideoPath, voiceHistory, edited, backendVars, started, voiceStarted>>

\* Click on "Save Edited Subtitles".
HandleSaveEditedSubtitles ==
  /\ activeStep > 2
  /\ Truthy(subtitlePath)
  /\ ~loading
  /\ edited
  /\ HasFree
  /\ started < MaxStarts
  /\ started' = started + 1
  /\ UNCHANGED voiceStarted
  /\ loading' = TRUE
  /\ error' = "null"
  /\ Start("save", "save", NoSettings)
  /\ UNCHANGED <<activeStep, job, audioPath, subtitlePath, voiceChangedAudioPath,
                 cleanedAudioPath, finalVideoPath, voiceHistory, edited, backendVars, voiceReqs>>

\* handleSaveEditedSubtitles returns once the save has settled; unlike the
\* stage handlers it does not fetch the job afterwards.
AfterSave_refresh(i) == Await(i, "refresh")

AfterSave(i) == Return(i)

\* handleSaveEditedSubtitles after `await saveEditedSubtitles(...)`.
SaveSettled(i) ==
  /\ i.k = "save"
  /\ i.ph = "req"
  /\ i.pc = "save"
  /\ \E ok \in BOOLEAN :
       IF ok
         THEN /\ subtitlePath' = "subs_edited"
              /\ UNCHANGED error
         ELSE /\ error' = FailMessage("save")
              /\ UNCHANGED subtitlePath
  /\ loading' = FALSE
  /\ AfterSave(i)
  /\ UNCHANGED <<activeStep, job, audioPath, voiceChangedAudioPath, cleanedAudioPath,
                 finalVideoPath, voiceHistory, edited, backendVars, started, voiceStarted, voiceReqs>>

\* Typing in the edited-subtitles field (disabled when activeStep > 3).
EditSubtitles ==
  /\ activeStep = 3
  /\ Truthy(subtitlePath)
  /\ edited' = ~edited
  /\ UNCHANGED <<activeStep, loading, error, job, audioPath, subtitlePath,
                 voiceChangedAudioPath, cleanedAudioPath, finalVideoPath, voiceHistory,
                 tasks, backendVars, started, voiceStarted, voiceReqs>>

\* Back / Next buttons of the step sections: setActiveStep(target).
NavEnabled(target) ==
  CASE target = 2 -> activeStep >= 3 /\ ~loading
    [] target = 3 -> activeStep >= 4 /\ ~loading
    [] target = 4 -> activeStep >= 5 /\ ~loading
    [] target = 5 -> activeStep >= 5 /\ ~loading
    [] target = 6 -> activeStep = 6 /\ ~loading

Navigate(target) ==
  /\ NavEnabled(target)
  /\ activeStep' = target
  /\ UNCHANGED <<loading, error, job, audioPath, subtitlePath, voiceChangedAudioPath,
                 cleanedAudioPath, finalVideoPath, voiceHistory, edited, tasks,
                 backendVars, started, voiceStarted, voiceReqs>>

\* Sidebar voice history: "New Voice" / "Use these voice settings".
SidebarNewVoice ==
  /\ Len(voiceHistory) > 0
  /\ activeStep' = 3
  /\ UNCHANGED <<loading, error, job, audioPath, subtitlePath, voiceChangedAudioPath,
                 cleanedAudioPath, finalVideoPath, voiceHistory, edited, tasks,
                 backendVars, started, voiceStarted, voiceReqs>>

\* Sidebar voice history: "Play this voice" on entry n.
SidebarPlayVoice(n) ==
  /\ n \in 1..Len(voiceHistory)
  /\ voiceChangedAudioPath' = [n |-> voiceHistory[n].url_path, t |-> FALSE]
  /\ UNCHANGED <<activeStep, loading, error, job, audioPath, subtitlePath,
                 cleanedAudioPath, finalVideoPath, voiceHistory, edited, tasks,
                 backendVars, started, voiceStarted, voiceReqs>>

\* ---------------------------------------------------------------------
\* MakeSubtitlePage: the subtitle editor (load, edit, save)
\* ---------------------------------------------------------------------

VARIABLES
  storedSrt,        \* backend: the SRT text stored for the job, as its cues
  editedSubtitles,  \* MakeSubtitlePage `editedSubtitles`
  srtLoads,         \* fetches of the subtitle text awaiting a response
  saveReqs          \* save-edited-subtitles requests in flight (the SRT text sent)

srtVars == <<storedSrt, editedSubtitles, srtLoads, saveReqs>>

\* State of the page the editor leaves alone.
msPollVars == <<gen, attempts, intervalId, promise, pollsInFlight, contentInFlight,
                loadsInFlight, otherRuns, pollCount, sawTerminal, termSubs,
                settledBy, msEv, msMounted>>

\* Bounds of the model (not program constants).
MaxSeconds == 1
MaxCues == 1
MaxSaves == 1

\* A timecode "HH:MM:SS,mmm" of an SRT text is written as its number of
\* milliseconds T (HH < 24).  A JavaScript number holding a time in seconds
\* is written as the integer K for which it is the double nearest to
\* K / 1000.
MsDigits == {0, 1, 500, 999}
Timecodes == {sec * 1000 + ms : sec \in 0..MaxSeconds, ms \in MsDigits}

SavedOk == [type |-> "success", text |-> "Subtitles saved successfully!"]
SaveFailed == [type |-> "error", text |-> "Failed to save subtitles: "]
HistoryFailed == [type |-> "error", text |-> "Failed to load subtitle history: "]
LoadedOk == [type |-> "success", text |-> "Loaded subtitle file"]
LoadFailed == [type |-> "error", text |-> "Failed to load subtitle file: "]

RECURSIVE Pow2(_)
Pow2(n) == IF n = 0 THEN 1 ELSE 2 * Pow2(n - 1)

\* 2^e modulo 125
RECURSIVE Pow2Mod125(_)
Pow2Mod125(e) == IF e = 0 THEN 1 ELSE (2 * Pow2Mod125(e - 1)) % 125

\* The binade of K / 1000: the B with 2^B <= K / 1000 < 2^(B+1), K > 0.
RECURSIVE BinadeFrom(_, _)
BinadeFrom(K, B) ==
  IF B >= 0
    THEN IF K < 1000 * Pow2(B + 1) THEN B ELSE BinadeFrom(K, B + 1)
    ELSE IF K * Pow2(-B) >= 1000 THEN B ELSE BinadeFrom(K, B - 1)

Binade(K) == IF K >= 1000 THEN BinadeFrom(K, 0) ELSE BinadeFrom(K, -1)

\* The binade of the doubles just below the integer ms, 1 <= ms <= 999.
BinadeBelow(ms) ==
  IF ms = 1 THEN -1 ELSE CHOOSE b \in 0..9 : Pow2(b) < ms /\ ms <= Pow2(b + 1)

\* Math.floor((seconds % 1) * 1000) for the double nearest to K / 1000, in
\* IEEE-754 binary64 arithmetic.  With B the binade of the number, the
\* double is round(K * 2^(52-B) / 1000) / 2^(52-B); r is the remainder of
\* K * 2^(49-B) by 125.  For r = 0 or r > 62 the double is not below
\* K / 1000 and the result is ms.  Otherwise it is below by
\* (r / 125) * 2^(B-52); `% 1` is exact, and the product with 1000 is below
\* ms by r * 2^(B-49), which rounds up to ms only when that is at most half
\* the spacing 2^(b-52) of the doubles below ms, i.e. 16 * r <= 2^(b-B);
\* else the product stays below ms and the floor is ms - 1.
FloorMs(K) ==
  LET ms == K % 1000
      B == Binade(K)
      r == ((K % 125) * Pow2Mod125(49 - B)) % 125
      d == BinadeBelow(ms) - B
  IN IF ms = 0 \/ r = 0 \/ r > 62 THEN ms
     ELSE IF d >= 10 \/ (d >= 4 /\ 16 * r <= Pow2(d)) THEN ms
     ELSE ms - 1

\* formatTimeSRT(seconds): the timecode written for a number of seconds.
FormatTimeSRT(K) ==
  IF K < 0 THEN 0
  ELSE ((K \div 1000) % 86400) * 1000 + FloorMs(K)

\* parser.fromSrt(text).map(...): one entry per cue, its times the numbers
\* of seconds of the cue's timecodes.
ParseSrt(text) ==
  [n \in 1..Len(text) |-> [id |-> text[n].id, start |-> text[n].start, end |-> text[n].end]]

\* parser.toSrt(editedSubtitles.map(...)): cues numbered from 1, times
\* written by formatTimeSRT.
ToSrt(subs) ==
  [n \in 1..Len(subs) |-> [id |-> n,
                           start |-> FormatTimeSRT(subs[n].start),
                           end |-> FormatTimeSRT(subs[n].end)]]

\* SRT texts a job may hold: cues numbered from 1, each starting before it ends.
Cues(n) ==
  {[id |-> n, start |-> p[1], end |-> p[2]] : p \in {q \in Timecodes \X Timecodes : q[1] < q[2]}}
SrtTexts ==
  UNION {{t \in [1..len -> UNION {Cues(n) : n \in 1..len}] : \A n \in 1..len : t[n].id = n}
           : len \in 1..MaxCues}

\* The editor before anything is loaded.
SrtIdle ==
  /\ storedSrt = <<>>
  /\ editedSubtitles = <<>>
  /\ srtLoads = 0
  /\ saveReqs = <<>>

SrtInit ==
  /\ storedSrt \in SrtTexts
  /\ editedSubtitles = <<>>
  /\ srtLoads = 0
  /\ saveReqs = <<>>

\* Click on a file of the subtitle history (never disabled):
\* handleLoadSubtitleFile up to its fetch.
HandleLoadSubtitleText ==
  /\ srtLoads < MaxLoads
  /\ msLoading' = TRUE
  /\ feedbackMessage' = NoFeedback
  /\ editedSubtitles' = <<>>
  /\ srtLoads' = srtLoads + 1
  /\ UNCHANGED <<storedSrt, saveReqs, msPollVars>>

\* The fetch returns the text the backend holds (or fails), and the handler
\* goes on to its end.
SubtitleTextLoaded(ok) ==
  /\ srtLoads > 0
  /\ srtLoads' = srtLoads - 1
  /\ IF ok
       THEN /\ editedSubtitles' = ParseSrt(storedSrt)
            /\ feedbackMessage' = LoadedOk
       ELSE /\ feedbackMessage' = LoadFailed
            /\ UNCHANGED editedSubtitles
  /\ msLoading' = FALSE
  /\ UNCHANGED <<storedSrt, saveReqs, msPollVars>>

\* handleDeleteSubtitle(idx)
HandleDeleteSubtitle(idx) ==
  /\ idx \in 1..Len(editedSubtitles)
  /\ editedSubtitles' = SubSeq(editedSubtitles, 1, idx - 1)
                          \o SubSeq(editedSubtitles, idx + 1, Len(editedSubtitles))
  /\ UNCHANGED <<msLoading, feedbackMessage, storedSrt, srtLoads, saveReqs, msPollVars>>

\* Click on "Save Edited Subtitles": handleSaveSubtitles up to its request.
HandleSaveSubtitles ==
  /\ ~msLoading
  /\ Len(editedSubtitles) > 0
  /\ Len(saveReqs) < MaxSaves
  /\ feedbackMessage' = NoFeedback
  /\ msLoading' = TRUE
  /\ saveReqs' = Append(saveReqs, ToSrt(editedSubtitles))
  /\ UNCHANGED <<storedSrt, editedSubtitles, srtLoads, msPollVars>>

\* The save request is answered (the backend stores the text it was sent,
\* or fails), the list of subtitle files is fetched again, and the handler
\* ends.
SaveSubtitlesSettled(ok, listOk) ==
  /\ saveReqs # <<>>
  /\ saveReqs' = Tail(saveReqs)
  /\ IF ok
       THEN /\ storedSrt' = Head(saveReqs)
            /\ feedbackMessage' = IF listOk THEN SavedOk ELSE HistoryFailed
       ELSE /\ feedbackMessage' = SaveFailed
            /\ UNCHANGED storedSrt
  /\ msLoading' = FALSE
  /\ UNCHANGED <<editedSubtitles, srtLoads, msPollVars>>

\* ---------------------------------------------------------------------
\* ProcessingPage: one change-voice action, with the values it started from
\* ---------------------------------------------------------------------

VARIABLES
  voicePre          \* history: voiceChangedAudioPath, voiceHistory and activeStep
                    \* at the last click on a change-voice button

NoPre == [path |-> NullVoicePath, hist |-> <<>>, step |-> 0]

\* No change-voice button has been clicked.
VoiceIdle == voicePre = NoPre

\* Click on a change-voice button, recording what the page held.
ClickChangeVoice(st) ==
  /\ HandleWithSave("voice", st)
  /\ voicePre' = [path |-> voiceChangedAudioPath, hist |-> voiceHistory, step |-> activeStep]

\* ---------------------------------------------------------------------
\* FinalVideoPage: handleCreateVideo and its pollStatus chain
\* ---------------------------------------------------------------------

VARIABLES
  isCreating,       \* FinalVideoPage `isCreating`
  videoUrl,         \* FinalVideoPage `videoUrl` (NoVideo for null)
  fvError,          \* FinalVideoPage `error`
  fvLoading,        \* FinalVideoPage `loading`
  filesLoaded,      \* audioFiles and subtitleFiles have been fetched
  selectedAudio,    \* an audio file is selected
  selectedSubtitle, \* a subtitle file is selected
  videoHistory,     \* urls of FinalVideoPage `videoHistory`
  chains,           \* running handleCreateVideo invocations, each at its await
  creates,          \* create requests sent so far
  polls,            \* "still processing" answers received so far
  downloads         \* handleDownload requests awaiting a response

fvVars == <<isCreating, videoUrl, fvError, fvLoading, filesLoaded, selectedAudio,
            selectedSubtitle, videoHistory, chains, creates, polls, downloads>>

MaxCreates == 2
MaxVideoPolls == 2
MaxDownloads == 1

\* Video urls: the one of create request n is n; one older video exists.
NoVideo == 0
OldVideo == MaxCreates + 1

LoadFilesError == "Failed to load files. Please try again."
NoJobIdError == "No job ID received from server"
VideoFailedError == "Video creation failed"
DownloadError == "Failed to download video. Please try again."
RequestError == "request error message"

\* Answers of GET /job-status/{jobId}.
VideoStatuses == {"processing", "completed", "failed"}

\* State of the page when it is constructed: the mount effect's fetch is
\* outstanding and the spinner is shown.
FvInit ==
  /\ isCreating = FALSE
  /\ videoUrl = NoVideo
  /\ fvError = "null"
  /\ fvLoading = TRUE
  /\ filesLoaded = FALSE
  /\ selectedAudio = FALSE
  /\ selectedSubtitle = FALSE
  /\ videoHistory = {}
  /\ chains = EmptyBag
  /\ creates = 0
  /\ polls = 0
  /\ downloads = 0

\* The chain c moves to its next await.
ChainAwait(c, pc) == chains' = (chains (-) SetToBag({c})) (+) SetToBag({[c EXCEPT !.pc = pc]})

\* The chain c ends.
ChainReturn(c) == chains' = chains (-) SetToBag({c})

\* fetchData of the mount effect settles: the two file lists, then the
\* video history.
FetchDataSettled(out, hist) ==
  /\ fvLoading
  /\ CASE out = "ok" ->
            /\ filesLoaded' = TRUE
            /\ videoHistory' = hist
            /\ UNCHANGED fvError
       [] out = "history_failed" ->
            /\ filesLoaded' = TRUE
            /\ fvError' = LoadFilesError
            /\ UNCHANGED videoHistory
       [] OTHER ->
            /\ fvError' = LoadFilesError
            /\ UNCHANGED <<filesLoaded, videoHistory>>
  /\ fvLoading' = FALSE
  /\ UNCHANGED <<isCreating, videoUrl, selectedAudio, selectedSubtitle, chains,
                 creates, polls, downloads>>

\* Click on an audio file card.
SetSelectedAudio ==
  /\ ~fvLoading
  /\ filesLoaded
  /\ selectedAudio' = TRUE
  /\ UNCHANGED <<isCreating, videoUrl, fvError, fvLoading, filesLoaded, selectedSubtitle,
                 videoHistory, chains, creates, polls, downloads>>

\* Click on a subtitle file card.
SetSelectedSubtitle ==
  /\ ~fvLoading
  /\ filesLoaded
  /\ selectedSubtitle' = TRUE
  /\ UNCHANGED <<isCreating, videoUrl, fvError, fvLoading, filesLoaded, selectedAudio,
                 videoHistory, chains, creates, polls, downloads>>

\* The Create Video button is enabled.
CreateEnabled == ~fvLoading /\ ~isCreating /\ selectedAudio /\ selectedSubtitle

\* Click on Create Video: handleCreateVideo up to its create request.
HandleCreateVideo ==
  /\ CreateEnabled
  /\ creates < MaxCreates
  /\ isCreating' = TRUE
  /\ fvError' = "null"
  /\ creates' = creates + 1
  /\ chains' = chains (+) SetToBag({[pc |-> "create", job |-> creates + 1]})
  /\ UNCHANGED <<videoUrl, fvLoading, filesLoaded, selectedAudio, selectedSubtitle,
                 videoHistory, polls, downloads>>

\* The create request settles: with a job id pollStatus sends its first
\* status request, otherwise the outer catch runs.
CreateSettled(c, out) ==
  /\ c.pc = "create"
  /\ CASE out = "job" ->
            /\ ChainAwait(c, "poll")
            /\ UNCHANGED <<fvError, isCreating>>
       [] out = "no_job" ->
            /\ ChainReturn(c)
            /\ fvError' = NoJobIdError
            /\ isCreating' = FALSE
       [] OTHER ->
            /\ ChainReturn(c)
            /\ fvError' = RequestError
            /\ isCreating' = FALSE
  /\ UNCHANGED <<videoUrl, fvLoading, filesLoaded, selectedAudio, selectedSubtitle,
                 videoHistory, creates, polls, downloads>>

\* pollStatus sets its timer again on the answer `status`.
ContinuePolling_onFailed(status) == status # "completed"

ContinuePolling(status) == status \notin {"completed", "failed"}

\* A status request of pollStatus settles, with an answer or an error.
PollSettled(c, ok, status) ==
  /\ c.pc = "poll"
  /\ IF ~ok
       THEN /\ ChainReturn(c)
            /\ fvError' = RequestError
            /\ isCreating' = FALSE
            /\ UNCHANGED <<videoUrl, polls>>
       ELSE IF status = "completed"
         THEN /\ videoUrl' = c.job
              /\ ChainAwait(c, "history")
              /\ UNCHANGED <<fvError, isCreating, polls>>
         ELSE IF ContinuePolling(status)
           THEN /\ polls < MaxVideoPolls
                /\ polls' = polls + 1
                /\ ChainAwait(c, "timer")
                /\ UNCHANGED <<videoUrl, fvError, isCreating>>
           ELSE /\ ChainReturn(c)
                /\ fvError' = VideoFailedError
                /\ isCreating' = FALSE
                /\ UNCHANGED <<videoUrl, polls>>
  /\ UNCHANGED <<fvLoading, filesLoaded, selectedAudio, selectedSubtitle,
                 videoHistory, creates, downloads>>

\* The 2 s timer of pollStatus fires: the next status request is sent.
PollTimerFires(c) ==
  /\ c.pc = "timer"
  /\ ChainAwait(c, "poll")
  /\ UNCHANGED <<isCreating, videoUrl, fvError, fvLoading, filesLoaded, selectedAudio,
                 selectedSubtitle, videoHistory, creates, polls, downloads>>

\* The history refresh after a completed video settles.
HistoryRefreshSettled(c, ok, hist) ==
  /\ c.pc = "history"
  /\ ChainReturn(c)
  /\ IF ok
       THEN /\ videoHistory' = hist
            /\ UNCHANGED fvError
       ELSE /\ fvError' = RequestError
            /\ UNCHANGED videoHistory
  /\ isCreating' = FALSE
  /\ UNCHANGED <<videoUrl, fvLoading, filesLoaded, selectedAudio, selectedSubtitle,
                 creates, polls, downloads>>

\* Click on Preview of a history entry.
PreviewVideo(u) ==
  /\ ~fvLoading
  /\ u \in videoHistory
  /\ videoUrl' = u
  /\ UNCHANGED <<isCreating, fvError, fvLoading, filesLoaded, selectedAudio, selectedSubtitle,
                 videoHistory, chains, creates, polls, downloads>>

\* Click on Download of a history entry.
HandleDownload ==
  /\ ~fvLoading
  /\ videoHistory # {}
  /\ downloads < MaxDownloads
  /\ downloads' = downloads + 1
  /\ UNCHANGED <<isCreating, videoUrl, fvError, fvLoading, filesLoaded, selectedAudio,
                 selectedSubtitle, videoHistory, chains, creates, polls>>

\* The download request settles.
DownloadSettled(ok) ==
  /\ downloads > 0
  /\ downloads' = downloads - 1
  /\ fvError' = IF ok THEN fvError ELSE DownloadError
  /\ UNCHANGED <<isCreating, videoUrl, fvLoading, filesLoaded, selectedAudio,
                 selectedSubtitle, videoHistory, chains, creates, polls>>

\* Video lists the history endpoint can return.
VideoHistories == SUBSET ({OldVideo} \cup 1..creates)

\* ---------------------------------------------------------------------
\* synchronize_and_generate_audio: speech synthesis with resume
\* ---------------------------------------------------------------------

VARIABLES
  pyProgress,       \* content of the progress file (NoProgress: no file)
  pyOutput,         \* content of the output audio file (NoAudio: no file)
  pyPc,             \* "idle": no run; "loop": a run is at the top of a loop iteration
  pyI,              \* loop index i of the next subtitle to process
  pyCombined,       \* combined_audio
  pyLastEnd,        \* last_end_time_ms
  pyDur,            \* srt_segment_duration_ms (Unbound before its first assignment)
  pyRuns,           \* runs started so far
  pyGenerated,      \* history: speech generations completed per subtitle, over all runs
  pyFailed,         \* history: subtitles whose generation failed in the latest run
  pyEverFailed,     \* history: a generation has failed in some run
  pyEnd             \* history: how the latest run ended

pyVars == <<pyProgress, pyOutput, pyPc, pyI, pyCombined, pyLastEnd, pyDur, pyRuns,
            pyGenerated, pyFailed, pyEverFailed, pyEnd>>

NumSubs == 3
MaxRuns == 2

NoProgress == -1
NoAudio == <<"no file">>
Unbound == -1

\* Subtitle k (from 0) lasts k + 1 time units and starts one unit after the
\* end of its predecessor.
SubDur(k) == k + 1
SubStart(k) == 1 + 2 * k + ((k * (k - 1)) \div 2)
SubEnd(k) == SubStart(k) + SubDur(k)

\* AudioSegment.silent(duration=d), and the speech of subtitle k trimmed or
\* padded to the subtitle's duration.
Silent(d) == [kind |-> "silence", k |-> -1, d |-> d]
Speech(k) == [kind |-> "speech", k |-> k, d |-> SubDur(k)]

\* load_progress: the saved index, 0 without a file.
LoadProgress == IF pyProgress = NoProgress THEN 0 ELSE pyProgress

\* last_end_time_ms when the loop reaches index start: the skipped
\* iterations leave it at the end of subtitle start - 1.
LastEndBefore(start) == IF start = 0 THEN 0 ELSE SubEnd(start - 1)

\* combined_audio with the silence that precedes subtitle i.
WithSilence(i) ==
  IF SubStart(i) - pyLastEnd > 0
    THEN Append(pyCombined, Silent(SubStart(i) - pyLastEnd))
    ELSE pyCombined

\* No run has been started; no file exists.
PyIdle ==
  /\ pyProgress = NoProgress
  /\ pyOutput = NoAudio
  /\ pyPc = "idle"
  /\ pyI = 0
  /\ pyCombined = <<>>
  /\ pyLastEnd = 0
  /\ pyDur = Unbound
  /\ pyRuns = 0
  /\ pyGenerated = [k \in 0..(NumSubs - 1) |-> 0]
  /\ pyFailed = {}
  /\ pyEverFailed = FALSE
  /\ pyEnd = "none"

\* synchronize_and_generate_audio is called: the progress file is read, an
\* existing audio file is loaded when resuming (loadOk: the load succeeds),
\* and the loop skips the subtitles below the start index.
StartRun(loadOk) ==
  /\ pyPc = "idle"
  /\ pyRuns < MaxRuns
  /\ pyRuns' = pyRuns + 1
  /\ pyFailed' = {}
  /\ pyDur' = Unbound
  /\ LET start == LoadProgress
     IN IF start > 0 /\ pyOutput # NoAudio
          THEN IF loadOk
                 THEN IF start < NumSubs
                        THEN /\ pyCombined' = pyOutput
                             /\ pyI' = start
                             /\ pyLastEnd' = LastEndBefore(start)
                             /\ pyPc' = "loop"
                             /\ UNCHANGED <<pyProgress, pyEnd>>
                        ELSE /\ pyProgress' = NoProgress
                             /\ pyEnd' = "assumed complete"
                             /\ UNCHANGED <<pyCombined, pyI, pyLastEnd, pyPc>>
                 ELSE /\ pyProgress' = NoProgress
                      /\ pyCombined' = <<>>
                      /\ pyI' = 0
                      /\ pyLastEnd' = 0
                      /\ pyPc' = "loop"
                      /\ UNCHANGED pyEnd
          ELSE /\ loadOk
               /\ pyCombined' = <<>>
               /\ pyI' = start
               /\ pyLastEnd' = LastEndBefore(start)
               /\ pyPc' = "loop"
               /\ UNCHANGED <<pyProgress, pyEnd>>
  /\ UNCHANGED <<pyOutput, pyGenerated, pyEverFailed>>

\* The index save_progress writes after subtitle i has been generated.
SavedIndex(i) == i

\* One iteration of the loop for subtitle pyI whose speech is generated.
SegmentGenerated ==
  /\ pyPc = "loop"
  /\ pyI < NumSubs
  /\ pyCombined' = Append(WithSilence(pyI), Speech(pyI))
  /\ pyLastEnd' = SubEnd(pyI)
  /\ pyDur' = SubDur(pyI)
  /\ pyProgress' = SavedIndex(pyI)
  /\ pyGenerated' = [pyGenerated EXCEPT ![pyI] = @ + 1]
  /\ pyI' = pyI + 1
  /\ UNCHANGED <<pyOutput, pyPc, pyRuns, pyFailed, pyEverFailed, pyEnd>>

\* One iteration of the loop for subtitle pyI whose speech generation
\* raises (an API error or another exception): the except block appends
\* silence of srt_segment_duration_ms, which is the duration of the
\* subtitle generated before, or is unbound when this run has generated
\* none, in which case the exception leaves the function.
SegmentFailed ==
  /\ pyPc = "loop"
  /\ pyI < NumSubs
  /\ pyFailed' = pyFailed \cup {pyI}
  /\ pyEverFailed' = TRUE
  /\ IF pyDur = Unbound
       THEN /\ pyPc' = "idle"
            /\ pyEnd' = "raised"
            /\ pyCombined' = WithSilence(pyI)
            /\ UNCHANGED <<pyLastEnd, pyI>>
       ELSE /\ pyCombined' = Append(WithSilence(pyI), Silent(pyDur))
            /\ pyLastEnd' = SubEnd(pyI)
            /\ pyI' = pyI + 1
            /\ UNCHANGED <<pyPc, pyEnd>>
  /\ UNCHANGED <<pyProgress, pyOutput, pyDur, pyRuns, pyGenerated>>

\* The API key is not set: the first call of generate_speech_eleven_labs
\* raises ValueError and the function returns.
ConfigurationError ==
  /\ pyPc = "loop"
  /\ pyI < NumSubs
  /\ pyDur = Unbound
  /\ pyPc' = "idle"
  /\ pyEnd' = "configuration error"
  /\ pyCombined' = WithSilence(pyI)
  /\ UNCHANGED <<pyProgress, pyOutput, pyI, pyLastEnd, pyDur, pyRuns, pyGenerated,
                 pyFailed, pyEverFailed>>

\* The loop is over: the audio is exported and the progress file removed,
\* or the export fails.
Export(ok) ==
  /\ pyPc = "loop"
  /\ pyI = NumSubs
  /\ pyPc' = "idle"
  /\ IF ok
       THEN /\ pyOutput' = pyCombined
            /\ pyProgress' = NoProgress
            /\ pyEnd' = "exported"
       ELSE /\ pyEnd' = "export failed"
            /\ UNCHANGED <<pyOutput, pyProgress>>
  /\ UNCHANGED <<pyI, pyCombined, pyLastEnd, pyDur, pyRuns, pyGenerated, pyFailed, pyEverFailed>>

\* The process is stopped during a run: the files stay as they are.
Interrupt ==
  /\ pyPc = "loop"
  /\ pyPc' = "idle"
  /\ pyEnd' = "interrupted"
  /\ UNCHANGED <<pyProgress, pyOutput, pyI, pyCombined, pyLastEnd, pyDur, pyRuns,
                 pyGenerated, pyFailed, pyEverFailed>>

\* The audio of a run over the first n subtitles in which every generation
\* succeeds.
RECURSIVE Uninterrupted(_)
Uninterrupted(n) ==
  IF n = 0 THEN <<>>
  ELSE Uninterrupted(n - 1) \o <<Silent(SubStart(n - 1) - LastEndBefore(n - 1)), Speech(n - 1)>>

vars == <<msVars, ppVars, srtVars, voicePre, fvVars, pyVars>>

\* ProcessingPage left in its initial state for a job just uploaded.
PpIdle ==
  /\ PpInit
  /\ bStatus = "uploaded"

Init == PpInit /\ MsInit /\ SrtIdle /\ VoiceIdle /\ FvInit /\ PyIdle

\* Steps of ProcessingPage and of the backend serving it.
Next ==
  \/ (\E i \in Pending : ServeJobStatus(i)) /\ UNCHANGED <<msVars, srtVars, voicePre, fvVars, pyVars>>
  \/ (\E i \in Pending : ServeVoiceHistory(i)) /\ UNCHANGED <<msVars, srtVars, voicePre, fvVars, pyVars>>
  \/ (\E i \in Pending : ServeStage(i)) /\ UNCHANGED <<msVars, srtVars, voicePre, fvVars, pyVars>>
  \/ (\E i \in Pending : ServeChangeVoice(i)) /\ UNCHANGED <<msVars, srtVars, voicePre, fvVars, pyVars>>
  \/ (\E i \in Pending : FetchJobStatusSettled(i)) /\ UNCHANGED <<msVars, srtVars, voicePre, fvVars, pyVars>>
  \/ (\E i \in Pending : FetchVoiceHistorySettled(i)) /\ UNCHANGED <<msVars, srtVars, voicePre, fvVars, pyVars>>
  \/ (\E k \in {"extract", "subtitles", "skip", "final"} : HandleStage(k)) /\ UNCHANGED <<msVars, srtVars, voicePre, fvVars, pyVars>>
  \/ (\E i \in Pending : StageSettled(i)) /\ UNCHANGED <<msVars, srtVars, voicePre, fvVars, pyVars>>
  \/ (\E i \in Pending : SubtitlesSettled(i)) /\ UNCHANGED <<msVars, srtVars, voicePre, fvVars, pyVars>>
  \/ (\E i \in Pending : SubtitleContentSettled(i)) /\ UNCHANGED <<msVars, srtVars, voicePre, fvVars, pyVars>>
  \/ (\E i \in Pending : SkipSettled(i)) /\ UNCHANGED <<msVars, srtVars, voicePre, fvVars, pyVars>>
  \/ (HandleWithSave("clean", NoSettings)) /\ UNCHANGED <<msVars, srtVars, voicePre, fvVars, pyVars>>
  \/ (\E st \in VoiceSettings : HandleWithSave("voice", st)) /\ UNCHANGED <<msVars, srtVars, voicePre, fvVars, pyVars>>
  \/ (\E i \in Pending : SaveBeforeStageSettled(i)) /\ UNCHANGED <<msVars, srtVars, voicePre, fvVars, pyVars>>
  \/ (\E i \in Pending : ChangeVoiceSettled(i)) /\ UNCHANGED <<msVars, srtVars, voicePre, fvVars, pyVars>>
  \/ (\E i \in Pending : VoiceHistorySettled(i)) /\ UNCHANGED <<msVars, srtVars, voicePre, fvVars, pyVars>>
  \/ (\E i \in Pending : StageRefreshSettled(i)) /\ UNCHANGED <<msVars, srtVars, voicePre, fvVars, pyVars>>
  \/ (HandleSaveEditedSubtitles) /\ UNCHANGED <<msVars, srtVars, voicePre, fvVars, pyVars>>
  \/ (\E i \in Pending : SaveSettled(i)) /\ UNCHANGED <<msVars, srtVars, voicePre, fvVars, pyVars>>
  \/ (EditSubtitles) /\ UNCHANGED <<msVars, srtVars, voicePre, fvVars, pyVars>>
  \/ (\E target \in 2..6 : Navigate(target)) /\ UNCHANGED <<msVars, srtVars, voicePre, fvVars, pyVars>>
  \/ (SidebarNewVoice) /\ UNCHANGED <<msVars, srtVars, voicePre, fvVars, pyVars>>
  \/ (\E n \in 1..MaxVoiceStarts : SidebarPlayVoice(n)) /\ UNCHANGED <<msVars, srtVars, voicePre, fvVars, pyVars>>

\* ProcessingPage of one job.
Spec == Init /\ [][Next]_vars

\* An outstanding request of ProcessingPage returns: the backend answers
\* it, or its response or error is delivered to the handler awaiting it.
RequestReturns ==
  \E i \in Pending :
    \/ ServeJobStatus(i) \/ ServeVoiceHistory(i) \/ ServeStage(i) \/ ServeChangeVoice(i)
    \/ FetchJobStatusSettled(i) \/ FetchVoiceHistorySettled(i)
    \/ StageSettled(i) \/ SubtitlesSettled(i) \/ SubtitleContentSettled(i) \/ SkipSettled(i)
    \/ SaveBeforeStageSettled(i) \/ ChangeVoiceSettled(i) \/ VoiceHistorySettled(i)
    \/ StageRefreshSettled(i) \/ SaveSettled(i)


InitPoll == MsInit /\ PpIdle /\ SrtIdle /\ VoiceIdle /\ FvInit /\ PyIdle

\* Steps of MakeSubtitlePage.
NextPoll ==
  \/ (HandleGenerateSubtitle) /\ UNCHANGED <<ppVars, srtVars, voicePre, fvVars, pyVars>>
  \/ (GenerateAccepted) /\ UNCHANGED <<ppVars, srtVars, voicePre, fvVars, pyVars>>
  \/ (GenerateRejected) /\ UNCHANGED <<ppVars, srtVars, voicePre, fvVars, pyVars>>
  \/ (PollTick) /\ UNCHANGED <<ppVars, srtVars, voicePre, fvVars, pyVars>>
  \/ (\E s \in PollSnapshots : PollResponse(s)) /\ UNCHANGED <<ppVars, srtVars, voicePre, fvVars, pyVars>>
  \/ (PollError) /\ UNCHANGED <<ppVars, srtVars, voicePre, fvVars, pyVars>>
  \/ (\E valid \in BOOLEAN : ContentResponse(valid)) /\ UNCHANGED <<ppVars, srtVars, voicePre, fvVars, pyVars>>
  \/ (ContentError) /\ UNCHANGED <<ppVars, srtVars, voicePre, fvVars, pyVars>>
  \/ (\E ok \in BOOLEAN : RefreshSettled(ok)) /\ UNCHANGED <<ppVars, srtVars, voicePre, fvVars, pyVars>>
  \/ (HandleLoadSubtitleFile) /\ UNCHANGED <<ppVars, srtVars, voicePre, fvVars, pyVars>>
  \/ (\E ok \in BOOLEAN : LoadSettled(ok)) /\ UNCHANGED <<ppVars, srtVars, voicePre, fvVars, pyVars>>
  \/ (OtherGenerateStart) /\ UNCHANGED <<ppVars, srtVars, voicePre, fvVars, pyVars>>
  \/ (OtherGenerateSettled) /\ UNCHANGED <<ppVars, srtVars, voicePre, fvVars, pyVars>>
  \/ (Unmount) /\ UNCHANGED <<ppVars, srtVars, voicePre, fvVars, pyVars>>

\* MakeSubtitlePage of one job.
SpecPoll == InitPoll /\ [][NextPoll]_vars

\* Fairness of the MakeSubtitlePage environment: the timer keeps firing
\* while it is set, and every outstanding request returns a response or an
\* error.  User clicks are not forced.
FairnessPoll ==
  /\ WF_vars(PollTick /\ UNCHANGED <<ppVars, srtVars, voicePre, fvVars, pyVars>>)
  /\ WF_vars((GenerateAccepted \/ GenerateRejected) /\ UNCHANGED <<ppVars, srtVars, voicePre, fvVars, pyVars>>)
  /\ WF_vars((PollError \/ \E s \in PollSnapshots : PollResponse(s)) /\ UNCHANGED <<ppVars, srtVars, voicePre, fvVars, pyVars>>)
  /\ WF_vars((ContentError \/ \E valid \in BOOLEAN : ContentResponse(valid)) /\ UNCHANGED <<ppVars, srtVars, voicePre, fvVars, pyVars>>)
  /\ WF_vars((\E ok \in BOOLEAN : RefreshSettled(ok)) /\ UNCHANGED <<ppVars, srtVars, voicePre, fvVars, pyVars>>)
  /\ WF_vars((\E ok \in BOOLEAN : LoadSettled(ok)) /\ UNCHANGED <<ppVars, srtVars, voicePre, fvVars, pyVars>>)
  /\ WF_vars(OtherGenerateSettled /\ UNCHANGED <<ppVars, srtVars, voicePre, fvVars, pyVars>>)

FairSpecPoll == InitPoll /\ [][NextPoll]_vars /\ FairnessPoll


InitSrt == MsInit /\ PpIdle /\ SrtInit /\ VoiceIdle /\ FvInit /\ PyIdle

\* Steps of the subtitle editor of MakeSubtitlePage.
NextSrt ==
  \/ (HandleLoadSubtitleText) /\ UNCHANGED <<ppVars, voicePre, fvVars, pyVars>>
  \/ (\E ok \in BOOLEAN : SubtitleTextLoaded(ok)) /\ UNCHANGED <<ppVars, voicePre, fvVars, pyVars>>
  \/ (\E idx \in 1..MaxCues : HandleDeleteSubtitle(idx)) /\ UNCHANGED <<ppVars, voicePre, fvVars, pyVars>>
  \/ (HandleSaveSubtitles) /\ UNCHANGED <<ppVars, voicePre, fvVars, pyVars>>
  \/ (\E ok \in BOOLEAN, listOk \in BOOLEAN : SaveSubtitlesSettled(ok, listOk)) /\ UNCHANGED <<ppVars, voicePre, fvVars, pyVars>>

\* The subtitle editor on a job that holds an SRT text.
SpecSrt == InitSrt /\ [][NextSrt]_vars


\* Statuses a snapshot can carry: those of the stage table and a failure
\* status outside it.
SnapshotStatuses == Statuses \cup {"generate_subtitles_failed"}

\* ProcessingPage at any step with one fetchJobStatus outstanding, on a job
\* at any status.
InitFetch ==
  /\ MsInit
  /\ SrtIdle
  /\ VoiceIdle /\ FvInit /\ PyIdle
  /\ activeStep \in 1..6
  /\ loading = FALSE
  /\ error = "null"
  /\ job = NullJob
  /\ audioPath = "null"
  /\ subtitlePath = "null"
  /\ voiceChangedAudioPath = NullVoicePath
  /\ cleanedAudioPath = "null"
  /\ finalVideoPath = "null"
  /\ voiceHistory = <<>>
  /\ edited = FALSE
  /\ tasks = SetToBag({[Free EXCEPT !.k = "fetchJobStatus", !.pc = "status", !.ph = "req"]})
  /\ bStatus \in SnapshotStatuses
  /\ bCv = IF bStatus = "voice_change_skipped" THEN "skipped" ELSE "none"
  /\ bCvPath = 0
  /\ bHistory = <<>>
  /\ bVer = 0
  /\ started = 0
  /\ voiceStarted = 0
  /\ voiceReqs = <<>>

\* The request of fetchJobStatus is served and its answer applied.
NextFetch ==
  \/ (\E i \in Pending : ServeJobStatus(i)) /\ UNCHANGED <<msVars, srtVars, voicePre, fvVars, pyVars>>
  \/ (\E i \in Pending : FetchJobStatusSettled(i)) /\ UNCHANGED <<msVars, srtVars, voicePre, fvVars, pyVars>>

\* One fetchJobStatus of ProcessingPage.
SpecFetch == InitFetch /\ [][NextFetch]_vars


\* ProcessingPage opened on a job whose subtitles exist (voice stage not run
\* or skipped), the mount effect's two requests outstanding.
InitVoice ==
  /\ MsInit
  /\ SrtIdle
  /\ VoiceIdle /\ FvInit /\ PyIdle
  /\ activeStep = 1
  /\ loading = FALSE
  /\ error = "null"
  /\ job = NullJob
  /\ audioPath = "null"
  /\ subtitlePath = "null"
  /\ voiceChangedAudioPath = NullVoicePath
  /\ cleanedAudioPath = "null"
  /\ finalVideoPath = "null"
  /\ voiceHistory = <<>>
  /\ edited = FALSE
  /\ tasks = SetToBag({ [Free EXCEPT !.k = "fetchJobStatus", !.pc = "status", !.ph = "req"],
                         [Free EXCEPT !.k = "fetchVoiceHistory", !.pc = "history", !.ph = "req"] })
  /\ bStatus \in {"subtitles_generated", "voice_change_skipped"}
  /\ bCv = IF bStatus = "voice_change_skipped" THEN "skipped" ELSE "none"
  /\ bCvPath = 0
  /\ bHistory = <<>>
  /\ bVer = 0
  /\ started = 0
  /\ voiceStarted = 0
  /\ voiceReqs = <<>>

\* Steps of the voice stage of ProcessingPage and of the backend serving it.
NextVoice ==
  \/ (\E i \in Pending : ServeJobStatus(i)) /\ UNCHANGED <<msVars, srtVars, voicePre, fvVars, pyVars>>
  \/ (\E i \in Pending : ServeVoiceHistory(i)) /\ UNCHANGED <<msVars, srtVars, voicePre, fvVars, pyVars>>
  \/ (\E i \in Pending : ServeChangeVoice(i)) /\ UNCHANGED <<msVars, srtVars, voicePre, fvVars, pyVars>>
  \/ (\E i \in Pending : FetchJobStatusSettled(i)) /\ UNCHANGED <<msVars, srtVars, voicePre, fvVars, pyVars>>
  \/ (\E i \in Pending : FetchVoiceHistorySettled(i)) /\ UNCHANGED <<msVars, srtVars, voicePre, fvVars, pyVars>>
  \/ (\E st \in VoiceSettings : ClickChangeVoice(st)) /\ UNCHANGED <<msVars, srtVars, fvVars, pyVars>>
  \/ (\E i \in Pending : SaveBeforeStageSettled(i)) /\ UNCHANGED <<msVars, srtVars, voicePre, fvVars, pyVars>>
  \/ (\E i \in Pending : ChangeVoiceSettled(i)) /\ UNCHANGED <<msVars, srtVars, voicePre, fvVars, pyVars>>
  \/ (\E i \in Pending : VoiceHistorySettled(i)) /\ UNCHANGED <<msVars, srtVars, voicePre, fvVars, pyVars>>
  \/ (\E i \in Pending : StageRefreshSettled(i)) /\ UNCHANGED <<msVars, srtVars, voicePre, fvVars, pyVars>>
  \/ (EditSubtitles) /\ UNCHANGED <<msVars, srtVars, voicePre, fvVars, pyVars>>
  \/ (SidebarNewVoice) /\ UNCHANGED <<msVars, srtVars, voicePre, fvVars, pyVars>>
  \/ (\E n \in 1..MaxVoiceStarts : SidebarPlayVoice(n)) /\ UNCHANGED <<msVars, srtVars, voicePre, fvVars, pyVars>>

\* The voice stage of ProcessingPage.
SpecVoice == InitVoice /\ [][NextVoice]_vars

\* ---------------------------------------------------------------------
\* ProcessingPage: release of the loading flag
\* ---------------------------------------------------------------------

\* Clicks on action buttons in one behaviour of the release analysis.
MaxClicks == 1

\* Statuses of the jobs opened in the release analysis, none with a
\* generated voice.
ReleaseStatuses == {"uploaded", "audio_extracted", "subtitles_generated",
                    "voice_change_skipped", "audio_cleaned"}

\* ProcessingPage opened on a job at one of these statuses, the mount
\* effect's two requests outstanding.
InitRelease ==
  /\ MsInit
  /\ SrtIdle
  /\ VoiceIdle /\ FvInit /\ PyIdle
  /\ activeStep = 1
  /\ loading = FALSE
  /\ error = "null"
  /\ job = NullJob
  /\ audioPath = "null"
  /\ subtitlePath = "null"
  /\ voiceChangedAudioPath = NullVoicePath
  /\ cleanedAudioPath = "null"
  /\ finalVideoPath = "null"
  /\ voiceHistory = <<>>
  /\ edited = FALSE
  /\ tasks = SetToBag({ [Free EXCEPT !.k = "fetchJobStatus", !.pc = "status", !.ph = "req"],
                         [Free EXCEPT !.k = "fetchVoiceHistory", !.pc = "history", !.ph = "req"] })
  /\ bStatus \in ReleaseStatuses
  /\ bCv = IF bStatus \in {"voice_change_skipped", "audio_cleaned"} THEN "skipped" ELSE "none"
  /\ bCvPath = 0
  /\ bHistory = <<>>
  /\ bVer = 0
  /\ started = 0
  /\ voiceStarted = 0
  /\ voiceReqs = <<>>

\* Steps of ProcessingPage and of the backend serving it, with at most
\* MaxClicks clicks on action buttons.
NextRelease ==
  \/ (\E i \in Pending : ServeJobStatus(i)) /\ UNCHANGED <<msVars, srtVars, voicePre, fvVars, pyVars>>
  \/ (\E i \in Pending : ServeVoiceHistory(i)) /\ UNCHANGED <<msVars, srtVars, voicePre, fvVars, pyVars>>
  \/ (\E i \in Pending : ServeStage(i)) /\ UNCHANGED <<msVars, srtVars, voicePre, fvVars, pyVars>>
  \/ (\E i \in Pending : ServeChangeVoice(i)) /\ UNCHANGED <<msVars, srtVars, voicePre, fvVars, pyVars>>
  \/ (\E i \in Pending : FetchJobStatusSettled(i)) /\ UNCHANGED <<msVars, srtVars, voicePre, fvVars, pyVars>>
  \/ (\E i \in Pending : FetchVoiceHistorySettled(i)) /\ UNCHANGED <<msVars, srtVars, voicePre, fvVars, pyVars>>
  \/ (started < MaxClicks /\ \E k \in {"extract", "subtitles", "skip", "final"} : HandleStage(k)) /\ UNCHANGED <<msVars, srtVars, voicePre, fvVars, pyVars>>
  \/ (\E i \in Pending : StageSettled(i)) /\ UNCHANGED <<msVars, srtVars, voicePre, fvVars, pyVars>>
  \/ (\E i \in Pending : SubtitlesSettled(i)) /\ UNCHANGED <<msVars, srtVars, voicePre, fvVars, pyVars>>
  \/ (\E i \in Pending : SubtitleContentSettled(i)) /\ UNCHANGED <<msVars, srtVars, voicePre, fvVars, pyVars>>
  \/ (\E i \in Pending : SkipSettled(i)) /\ UNCHANGED <<msVars, srtVars, voicePre, fvVars, pyVars>>
  \/ (started < MaxClicks /\ HandleWithSave("clean", NoSettings)) /\ UNCHANGED <<msVars, srtVars, voicePre, fvVars, pyVars>>
  \/ (started < MaxClicks /\ \E st \in VoiceSettings : HandleWithSave("voice", st)) /\ UNCHANGED <<msVars, srtVars, voicePre, fvVars, pyVars>>
  \/ (\E i \in Pending : SaveBeforeStageSettled(i)) /\ UNCHANGED <<msVars, srtVars, voicePre, fvVars, pyVars>>
  \/ (\E i \in Pending : ChangeVoiceSettled(i)) /\ UNCHANGED <<msVars, srtVars, voicePre, fvVars, pyVars>>
  \/ (\E i \in Pending : VoiceHistorySettled(i)) /\ UNCHANGED <<msVars, srtVars, voicePre, fvVars, pyVars>>
  \/ (\E i \in Pending : StageRefreshSettled(i)) /\ UNCHANGED <<msVars, srtVars, voicePre, fvVars, pyVars>>
  \/ (started < MaxClicks /\ HandleSaveEditedSubtitles) /\ UNCHANGED <<msVars, srtVars, voicePre, fvVars, pyVars>>
  \/ (\E i \in Pending : SaveSettled(i)) /\ UNCHANGED <<msVars, srtVars, voicePre, fvVars, pyVars>>
  \/ (EditSubtitles) /\ UNCHANGED <<msVars, srtVars, voicePre, fvVars, pyVars>>
  \/ (\E target \in 2..6 : Navigate(target)) /\ UNCHANGED <<msVars, srtVars, voicePre, fvVars, pyVars>>
  \/ (SidebarNewVoice) /\ UNCHANGED <<msVars, srtVars, voicePre, fvVars, pyVars>>
  \/ (\E n \in 1..MaxVoiceStarts : SidebarPlayVoice(n)) /\ UNCHANGED <<msVars, srtVars, voicePre, fvVars, pyVars>>

\* Every request eventually returns a response or an error.  User clicks
\* are not forced.
FairSpecRelease ==
  InitRelease /\ [][NextRelease]_vars
    /\ WF_vars(RequestReturns /\ UNCHANGED <<msVars, srtVars, voicePre, fvVars, pyVars>>)

InitVideo == MsInit /\ PpIdle /\ SrtIdle /\ VoiceIdle /\ FvInit /\ PyIdle

\* Steps of FinalVideoPage; every request is answered by the backend with
\* any of its possible answers, or fails.
NextVideo ==
  \/ (\E out \in {"ok", "history_failed", "files_failed"}, hist \in VideoHistories : FetchDataSettled(out, hist)) /\ UNCHANGED <<msVars, ppVars, srtVars, voicePre, pyVars>>
  \/ (SetSelectedAudio) /\ UNCHANGED <<msVars, ppVars, srtVars, voicePre, pyVars>>
  \/ (SetSelectedSubtitle) /\ UNCHANGED <<msVars, ppVars, srtVars, voicePre, pyVars>>
  \/ (HandleCreateVideo) /\ UNCHANGED <<msVars, ppVars, srtVars, voicePre, pyVars>>
  \/ (\E c \in BagToSet(chains), out \in {"job", "no_job", "error"} : CreateSettled(c, out)) /\ UNCHANGED <<msVars, ppVars, srtVars, voicePre, pyVars>>
  \/ (\E c \in BagToSet(chains), ok \in BOOLEAN, status \in VideoStatuses : PollSettled(c, ok, status)) /\ UNCHANGED <<msVars, ppVars, srtVars, voicePre, pyVars>>
  \/ (\E c \in BagToSet(chains) : PollTimerFires(c)) /\ UNCHANGED <<msVars, ppVars, srtVars, voicePre, pyVars>>
  \/ (\E c \in BagToSet(chains), ok \in BOOLEAN, hist \in VideoHistories : HistoryRefreshSettled(c, ok, hist)) /\ UNCHANGED <<msVars, ppVars, srtVars, voicePre, pyVars>>
  \/ (\E u \in videoHistory : PreviewVideo(u)) /\ UNCHANGED <<msVars, ppVars, srtVars, voicePre, pyVars>>
  \/ (HandleDownload) /\ UNCHANGED <<msVars, ppVars, srtVars, voicePre, pyVars>>
  \/ (\E ok \in BOOLEAN : DownloadSettled(ok)) /\ UNCHANGED <<msVars, ppVars, srtVars, voicePre, pyVars>>

SpecVideo == InitVideo /\ [][NextVideo]_vars

\* No file exists, or an audio file of an earlier complete run does.
InitSync ==
  /\ MsInit /\ PpIdle /\ SrtIdle /\ VoiceIdle /\ FvInit
  /\ pyProgress = NoProgress
  /\ pyOutput \in {NoAudio, Uninterrupted(NumSubs)}
  /\ pyPc = "idle"
  /\ pyI = 0
  /\ pyCombined = <<>>
  /\ pyLastEnd = 0
  /\ pyDur = Unbound
  /\ pyRuns = 0
  /\ pyGenerated = [k \in 0..(NumSubs - 1) |-> 0]
  /\ pyFailed = {}
  /\ pyEverFailed = FALSE
  /\ pyEnd = "none"

\* Runs of synchronize_and_generate_audio on one SRT file and output path.
NextSync ==
  \/ (\E loadOk \in BOOLEAN : StartRun(loadOk)) /\ UNCHANGED <<msVars, ppVars, srtVars, voicePre, fvVars>>
  \/ (SegmentGenerated) /\ UNCHANGED <<msVars, ppVars, srtVars, voicePre, fvVars>>
  \/ (SegmentFailed) /\ UNCHANGED <<msVars, ppVars, srtVars, voicePre, fvVars>>
  \/ (ConfigurationError) /\ UNCHANGED <<msVars, ppVars, srtVars, voicePre, fvVars>>
  \/ (\E ok \in BOOLEAN : Export(ok)) /\ UNCHANGED <<msVars, ppVars, srtVars, voicePre, fvVars>>
  \/ (Interrupt) /\ UNCHANGED <<msVars, ppVars, srtVars, voicePre, fvVars>>

SpecSync == InitSync /\ [][NextSync]_vars



\* ---------------------------------------------------------------------
\* Properties
\* ---------------------------------------------------------------------

AwaitedRefreshOk(i) == StageRefreshSettled(i) /\ i.r.ok

\* C1: when a stage handler of ProcessingPage completes successfully (its
\* follow-up snapshot has been fetched and stored), activeStep equals the
\* step that the stored snapshot's status maps to.
C1_ActiveStepMatchesReportedStatus ==
  [][\A i \in Pending : AwaitedRefreshOk(i) => activeStep' = StepOfStatus(job'.status, 0)]_vars

AnyRunButtonEnabled == \E k \in StageKinds : RunButtonEnabled(k)

\* C2: at most one stage-advancing request is outstanding, and while a
\* stage handler has not returned (save, stage request or follow-up fetch)
\* no "run stage" button accepts a click.
C2_OneStageActionAtATime ==
  /\ StageRequestsInFlight <= 1
  /\ StageActionsPending > 0 => ~AnyRunButtonEnabled

\* C3: the loop never issues more than 60 job-status polls, and a loop that
\* has stopped without having seen a completed or failed snapshot has issued
\* exactly 60 polls and has rejected with the timeout error on the 61st tick.
C3_SixtyPollsThenTimeout ==
  /\ pollCount <= maxAttempts
  /\ (promise # "none" /\ ~intervalId /\ ~sawTerminal)
       => (pollCount = maxAttempts /\ attempts = maxAttempts + 1 /\ promise = TimeoutError)

C3_Witness ==
  /\ promise = TimeoutError
  /\ pollCount = maxAttempts
  /\ attempts = maxAttempts + 1
  /\ ~sawTerminal
  /\ ~intervalId

\* C4: the timeout rejection and the backend-failure rejection are different
\* values, the timeout text advises a manual check and does not assert a
\* failure, the promise and the feedback carry the timeout text only when
\* the budget branch settled the promise, and the failure text only when a
\* failed snapshot did.
C4_TimeoutDistinctFromFailure ==
  /\ TimeoutError # FailedError
  /\ AdvisesManualCheck(TimeoutError) /\ ~AssertsFailure(TimeoutError)
  /\ (promise = TimeoutError) <=> (settledBy = "budget")
  /\ (promise = FailedError) <=> (settledBy = "failed_snapshot")
  /\ feedbackMessage.text = TimeoutError => settledBy = "budget"
  /\ feedbackMessage.text = FailedError => settledBy = "failed_snapshot"

C4_Witness ==
  /\ settledBy = "budget"
  /\ promise = TimeoutError
  /\ feedbackMessage = [type |-> "error", text |-> TimeoutError]

SkipOk(i) == SkipSettled(i) /\ i.r.ok

SkippedSnapshotApplied(i) ==
  FetchJobStatusSettled(i) /\ i.r.ok /\ i.r.snap.status = "voice_change_skipped"

\* C5: a successful skip leaves the page at step 4 with Clean Audio enabled,
\* and applying a snapshot with status voice_change_skipped keeps step 4,
\* with steps.change_voice.status = "skipped" in the stored snapshot and
\* Clean Audio enabled as soon as the in-flight flag is clear, whatever the
\* voice-changed path is.
C5_SkipReachesCleanAudio ==
  [][/\ \A i \in Pending : SkipOk(i) => (activeStep' = 4 /\ RunButtonEnabled("clean")')
     /\ \A i \in Pending : SkippedSnapshotApplied(i) =>
          /\ activeStep' = 4
          /\ job'.cv = "skipped"
          /\ (~loading' => RunButtonEnabled("clean")')]_vars

C5_Witness ==
  /\ started = 1
  /\ error = "null"
  /\ job.status = "voice_change_skipped"
  /\ job.cv = "skipped"
  /\ job.cvPath = 0
  /\ job.ver = 1
  /\ activeStep = 4
  /\ voiceChangedAudioPath = NullVoicePath
  /\ RunButtonEnabled("clean")

VoiceActionPending == \E i \in Pending : i.k = "voice"

SameSettings(entry, st) ==
  /\ entry.voice_id = st.voice_id
  /\ entry.stability = st.stability
  /\ entry.clarity = st.clarity
  /\ entry.subtitle_selection = st.subtitle_selection

IsPrefix(a, b) == Len(a) <= Len(b) /\ \A n \in 1..Len(a) : a[n] = b[n]

\* Every voice the backend has generated belongs to a change-voice action
\* that the client completed successfully.
AllVoiceActionsSucceeded == ~VoiceActionPending /\ Len(bHistory) = Len(voiceReqs)

\* C6: after N successful change-voice actions (and no failed one) the
\* client's voiceHistory has exactly N entries, in request order and with
\* each request's voice id, stability, clarity and subtitle selection; and
\* no step changes or removes an entry that the client already holds.
C6_VoiceHistoryAppendOnly ==
  /\ [](AllVoiceActionsSucceeded =>
          /\ Len(voiceHistory) = Len(voiceReqs)
          /\ \A n \in 1..Len(voiceReqs) : SameSettings(voiceHistory[n], voiceReqs[n]))
  /\ [][IsPrefix(voiceHistory, voiceHistory')]_vars

\* C7: the snapshot stored by the client is never replaced by an older one.
C7_SnapshotNeverGoesBack ==
  [][job'.ver >= job.ver]_vars

\* A stage response that is a hard failure: an error, or a success that
\* lacks the stage's artifact locator.
HardFailure(i) ==
  \/ ~i.r.ok
  \/ i.k # "skip" /\ ~i.r.skipped /\ ~i.r.path

StageResponseHandled(i) ==
  StageSettled(i) \/ SubtitlesSettled(i) \/ ChangeVoiceSettled(i) \/ SkipSettled(i)

\* C8: handling a hard failure of a stage request leaves activeStep as it
\* was and sets an error.
C8_HardFailureKeepsStep ==
  [][\A i \in Pending : (StageResponseHandled(i) /\ HardFailure(i))
        => (activeStep' = activeStep /\ error' # "null")]_vars

\* C9: a pending promise of pollForSubtitles is eventually settled, and a
\* running handleGenerateSubtitle eventually returns with loading = false.
C9_GenerationSettles ==
  /\ (promise = "pending") ~> (promise # "pending")
  /\ (gen # "idle") ~> (gen = "idle" /\ ~msLoading)

\* C10: a failed job-status fetch of one attempt leaves the timer, the
\* attempt counter and the promise as they are, and the timer is only ever
\* cleared on the tick that exceeds the budget or after a completed or
\* failed snapshot.
C10_PollErrorKeepsLoop ==
  [][/\ PollError => (intervalId' = intervalId /\ promise' = promise /\ attempts' = attempts)
     /\ (intervalId /\ ~intervalId') => (BudgetExceeded(attempts') \/ sawTerminal')]_vars

C10_Witness ==
  /\ msEv = "poll_error"
  /\ intervalId
  /\ promise = "pending"
  /\ pollCount >= 1
  /\ attempts <= maxAttempts

\* C11: once MakeSubtitlePage has been torn down, the polling loop issues no
\* further job-status poll and updates no state of the page.
C11_TeardownStopsPolling ==
  [][~msMounted => (/\ pollCount' = pollCount
                    /\ msLoading' = msLoading
                    /\ feedbackMessage' = feedbackMessage)]_vars

\* C12: the promise is resolved only after a snapshot of the loop reported
\* steps.generate_subtitles.status = completed, it carries the failure
\* rejection only after one reported that status as failed, and once a
\* terminal snapshot has been seen the timer is off, so no further poll is
\* issued.
C12_SettlesOnStepStatusOnly ==
  /\ promise = "resolved" => "completed" \in termSubs
  /\ promise = FailedError => "failed" \in termSubs
  /\ sawTerminal => ~intervalId

ArtifactPaths == <<audioPath, subtitlePath, voiceChangedAudioPath, cleanedAudioPath,
                   finalVideoPath>>

\* C13: a Back / Next click issues no request, leaves the stored snapshot
\* and the artifact paths as they are, and afterwards a "run stage" button is
\* enabled only for the stage that the stored job.status maps to.
C13_BackIsViewOnly ==
  [][\A target \in 2..6 : Navigate(target) =>
        /\ tasks' = tasks
        /\ job' = job
        /\ ArtifactPaths' = ArtifactPaths
        /\ \A k \in StageKinds :
             RunButtonEnabled(k)' => EnabledAtStep(k, StepOfStatus(job'.status, 0))]_vars

HoldsVoiceAudio == voiceChangedAudioPath.n > 0

\* A step of handler k (the click that starts it or one of its continuations).
RerunStep(k) ==
  \/ k \in {"extract", "subtitles", "skip", "final"} /\ HandleStage(k)
  \/ k = "clean" /\ HandleWithSave("clean", NoSettings)
  \/ k = "voice" /\ \E st \in VoiceSettings : HandleWithSave("voice", st)
  \/ \E i \in Pending :
       /\ i.k = k
       /\ \/ StageSettled(i) \/ SubtitlesSettled(i) \/ SubtitleContentSettled(i)
          \/ SkipSettled(i) \/ SaveBeforeStageSettled(i) \/ ChangeVoiceSettled(i)
          \/ VoiceHistorySettled(i) \/ StageRefreshSettled(i)

\* Each artifact path that is held stays held, unless the step belongs to
\* the handler of its own stage.
PathsKept ==
  /\ (Truthy(audioPath) /\ ~RerunStep("extract")) => Truthy(audioPath')
  /\ (Truthy(subtitlePath) /\ ~RerunStep("subtitles")) => Truthy(subtitlePath')
  /\ (HoldsVoiceAudio /\ ~RerunStep("voice")) => HoldsVoiceAudio'
  /\ (Truthy(cleanedAudioPath) /\ ~RerunStep("clean")) => Truthy(cleanedAudioPath')
  /\ (Truthy(finalVideoPath) /\ ~RerunStep("final")) => Truthy(finalVideoPath')

\* A snapshot refresh or a voice-history refresh is applied.
RefreshStep ==
  \E i \in Pending : FetchJobStatusSettled(i) \/ FetchVoiceHistorySettled(i)

\* The page is past every stage whose artifact it holds.
PastHeldStages ==
  /\ Truthy(audioPath) => activeStep >= 2
  /\ Truthy(subtitlePath) => activeStep >= 3
  /\ HoldsVoiceAudio => activeStep >= 4
  /\ Truthy(cleanedAudioPath) => activeStep >= 5
  /\ Truthy(finalVideoPath) => activeStep >= 6

\* C14: an artifact path the client holds is cleared only by a step of the
\* handler that re-runs its stage, and a snapshot or voice-history refresh
\* never takes the page back to a stage whose artifact it holds.
C14_ArtifactsNotRegressed ==
  [][/\ PathsKept
     /\ (RefreshStep /\ PastHeldStages) => PastHeldStages']_vars

\* The answer held by invocation i is handed to its continuation.
Delivered(i) == i.ph = "resp" /\ CopiesIn(i, tasks') < CopiesIn(i, tasks)

\* C15: when the failure of a request (job status, voice history, a stage
\* request, a follow-up snapshot fetch) is handed to the page, the page has
\* an error set afterwards.
C15_NoSilentFailure ==
  [][\A i \in Pending : (Delivered(i) /\ ~i.r.ok) => error' # "null"]_vars

\* Requests of stage k the running handlers have sent and the backend has
\* not served yet, or will send once their save has returned.
StageTokens(k) ==
  CopiesOf({t \in Pending : t.k = k /\ (t.pc = "save" \/ (t.pc = "stage" /\ t.ph = "req"))})

\* The user clicks the button that runs stage k.
ClickStage(k) ==
  \/ HandleStage(k)
  \/ \E st \in VoiceSettings \cup {NoSettings} : HandleWithSave(k, st)

\* C16: a request of a stage's backend operation comes into being only in
\* the step of a user click on that stage's button, and one per click; in
\* particular the handling of a failed stage request sends no new one.
C16_StageRequestOncePerClick ==
  [][\A k \in StageKinds :
       StageTokens(k)' > StageTokens(k) =>
         ClickStage(k) /\ StageTokens(k)' = StageTokens(k) + 1]_vars

\* A failed Extract Audio has been handled: the message is up, the job is
\* as uploaded, and no stage request is outstanding.
C16_Witness ==
  /\ error = FailMessage("extract")
  /\ bStatus = "uploaded"
  /\ activeStep = 1
  /\ ~loading
  /\ started >= 1
  /\ \A k \in StageKinds : StageTokens(k) = 0

\* The current voice audio is the plain locator of an entry of the history
\* shown in the sidebar: the states "Play this voice" on that entry leads to
\* (and is enabled in).
SelectedEntryShown ==
  /\ voiceChangedAudioPath.n \in 1..Len(voiceHistory)
  /\ ~voiceChangedAudioPath.t
  /\ voiceHistory[voiceChangedAudioPath.n].url_path = voiceChangedAudioPath.n

\* C17: once the current voice audio is the entry the user selected, the
\* settling of a snapshot refresh or of a history refresh leaves
\* voiceChangedAudioPath as it is.
C17_SelectionSurvivesRefresh ==
  [][(SelectedEntryShown /\ RefreshStep) =>
        voiceChangedAudioPath' = voiceChangedAudioPath]_vars

\* A step of the "Save Edited Subtitles" action: the click, or a step of
\* the handler it started.
SaveActionStep ==
  \/ HandleSaveEditedSubtitles
  \/ \E i \in Pending : i.k = "save" /\ CopiesIn(i, tasks') < CopiesIn(i, tasks)

\* C18: the steps of a save-edited-subtitles action, and the save that
\* precedes a change-voice or clean-audio request, leave activeStep and the
\* job snapshot as they are; of the artifact locators and the voice history
\* a save changes subtitlePath only, to the edited file's locator and
\* without setting an error.
C18_SaveKeepsStage ==
  [][/\ SaveActionStep =>
          /\ activeStep' = activeStep
          /\ job' = job
          /\ <<audioPath, voiceChangedAudioPath, cleanedAudioPath, finalVideoPath, voiceHistory>>'
               = <<audioPath, voiceChangedAudioPath, cleanedAudioPath, finalVideoPath, voiceHistory>>
          /\ subtitlePath' \in {subtitlePath, "subs_edited"}
          /\ (subtitlePath' # subtitlePath => error' = error)
     /\ \A i \in Pending : SaveBeforeStageSettled(i) => activeStep' = activeStep /\ job' = job]_vars

\* A save has succeeded on a job whose voice stage was skipped: the locator
\* is the edited file's, the page is still at the step the user saved from
\* and holds the snapshot it had.
C18_Witness ==
  /\ subtitlePath = "subs_edited"
  /\ started = 1
  /\ error = "null"
  /\ ~loading
  /\ activeStep = 3
  /\ job.status = "voice_change_skipped"
  /\ bStatus = "voice_change_skipped"
  /\ \A t \in Pending : t.k \in {"fetchJobStatus", "fetchVoiceHistory"}

\* renderVoiceChanger's warning, or the note handleChangeVoice puts up.
ShowsSkip == job.cv = "skipped" \/ error = VoiceSkippedNote

\* handleChangeVoice ends after a response that reported the skip.
SkipHandled(i) == i.k = "voice" /\ i.sk /\ StageRefreshSettled(i)

\* C19: when handleChangeVoice has handled a response reporting
\* voice_change_skipped, the page shows the skip (the note, or the skipped
\* entry of the snapshot) and does not show the failure message of a
\* change-voice.
C19_SkipShownAsSkip ==
  [][\A i \in Pending :
       SkipHandled(i) => ShowsSkip' /\ error' # FailMessage("voice")]_vars

\* The save request being answered carries the text that the stored text
\* gives when it is fetched into the editor and saved with no edit.
SavesFetchedText == saveReqs # <<>> /\ Head(saveReqs) = ToSrt(ParseSrt(storedSrt))

\* C20: a text that is saved is the stored text afterwards, so that
\* fetching it returns it; and saving the text just fetched, with no edit
\* in between, leaves the stored text as it is.
C20_SaveFetchedTextIsNoOp ==
  [][\A listOk \in BOOLEAN :
       SaveSubtitlesSettled(TRUE, listOk) =>
         /\ storedSrt' = Head(saveReqs)
         /\ SavesFetchedText => storedSrt' = storedSrt]_vars

\* The step of each status of the stage table.
StageTable ==
  [st \in Statuses |->
     CASE st = "uploaded" -> 1
       [] st = "audio_extracted" -> 2
       [] st = "subtitles_generated" -> 3
       [] st \in {"voice_changed", "voice_change_skipped"} -> 4
       [] st = "audio_cleaned" -> 5
       [] st = "completed" -> 6]

\* C21: when fetchJobStatus settles with a snapshot, activeStep becomes the
\* step of the snapshot's status in the stage table, and stays as it is for
\* a status outside the table; when the fetch fails, activeStep stays as it
\* is and the error is set.
C21_StatusMapsToStep ==
  [][\A i \in Pending : FetchJobStatusSettled(i) =>
       IF i.r.ok
         THEN IF i.r.snap.status \in Statuses
                THEN activeStep' = StageTable[i.r.snap.status]
                ELSE activeStep' = activeStep
         ELSE activeStep' = activeStep /\ error' = JobLoadError]_vars

\* A snapshot with a status outside the table has been applied with the
\* page at step 3.
C21_Witness ==
  /\ job.status = "generate_subtitles_failed"
  /\ activeStep = 3
  /\ error = "null"
  /\ tasks = EmptyBag

\* Invocation t comes into being, resp. i goes away, in the step.
Appears(t) == CopiesIn(t, tasks') > CopiesIn(t, tasks)
Leaves(i) == CopiesIn(i, tasks') < CopiesIn(i, tasks)

\* t is a handler of Clean Audio or change-voice at its stage request.
AtStageRequest(t) == t.k \in {"voice", "clean"} /\ t.pc = "stage" /\ t.ph = "req"

\* i is such a handler waiting for its save of the edited subtitles.
AtSave(i) == i.k \in {"voice", "clean"} /\ i.pc = "save"

\* C22: a click with the subtitle text edited starts the handler at its
\* save, not at its stage request; a handler reaches its stage request
\* without a click only from its save, when that has succeeded; and a
\* handler whose save has failed ends without a stage request, with
\* activeStep as it was and an error set.
C22_SaveBeforeStage ==
  [][/\ \A t \in BagToSet(tasks') :
          (AtStageRequest(t) /\ Appears(t)) =>
             IF started' # started
               THEN ~edited
               ELSE /\ subtitlePath' = "subs_edited"
                    /\ \E i \in Pending : AtSave(i) /\ i.k = t.k /\ Leaves(i)
     /\ \A i \in Pending :
          (AtSave(i) /\ Leaves(i) /\ ~\E t \in BagToSet(tasks') : AtStageRequest(t) /\ Appears(t)) =>
             activeStep' = activeStep /\ error' # "null" /\ ~loading']_vars

\* Clean Audio was clicked at step 4 with the text edited and its save has
\* failed: the message is up, nothing of the job has changed.
C22_Witness ==
  /\ edited
  /\ activeStep = 4
  /\ error = FailMessage("clean")
  /\ ~loading
  /\ subtitlePath = "subs"
  /\ cleanedAudioPath = "null"
  /\ bStatus = "voice_change_skipped"
  /\ tasks = EmptyBag

\* C23: when a handleChangeVoice invocation ends with the failure message
\* on the page, voiceChangedAudioPath, voiceHistory and activeStep are what
\* they were at the click that started it.
C23_FailedVoiceChangeKeepsState ==
  [][\A i \in Pending :
       (i.k = "voice" /\ Leaves(i) /\ error' = FailMessage("voice")) =>
          /\ voiceChangedAudioPath' = voicePre.path
          /\ voiceHistory' = voicePre.hist
          /\ activeStep' = voicePre.step]_vars

\* C24: while a handleGenerateSubtitle invocation is between its click and
\* the settling of its polling loop, no other invocation of it is running.
C24_OnePollingLoop ==
  gen \in {"generating", "polling"} => otherRuns = 0

\* A chain of handleCreateVideo that is polling: a status request or its
\* timer is outstanding.
Polling(c) == c.pc \in {"poll", "timer"}

StageStep(k) == StepAfter(k) - 1

\* C26: activeStep is always one of 1..6, and a click that runs a stage
\* happens only while activeStep is the step of that stage.
C26_RunButtonOfActiveStep ==
  [][/\ activeStep' \in 1..6
     /\ \A t \in BagToSet(tasks') :
          (t.k \in StageKinds /\ Appears(t) /\ started' # started) =>
             activeStep = StageStep(t.k)]_vars

\* C27: whenever loading is set it is eventually released, provided every
\* request returns.
C27_LoadingReleased == loading ~> ~loading

C27_Witness ==
  /\ ~loading
  /\ tasks = EmptyBag
  /\ started = MaxClicks
  /\ job.status = "voice_change_skipped"
  /\ error = VoiceSkippedNote

\* C28: when a run has ended, every subtitle whose generation failed in it
\* is processed again by the run that follows: that run's loop starts at an
\* index not above the failed subtitle.
C28_FailedSegmentRetried ==
  [][(pyPc = "idle" /\ pyPc' = "loop") => \A i \in pyFailed : pyI' <= i]_vars

\* C29: once a run has exported the audio with no generation ever failing,
\* whether or not earlier runs were interrupted, every subtitle has been
\* generated exactly once over all runs, the exported audio is that of one
\* uninterrupted run, and the progress file is gone.
C29_ResumeEquivalence ==
  (pyPc = "idle" /\ pyEnd = "exported" /\ ~pyEverFailed) =>
     /\ \A k \in 0..(NumSubs - 1) : pyGenerated[k] = 1
     /\ pyOutput = Uninterrupted(NumSubs)
     /\ pyProgress = NoProgress


====
